---------------------------- MODULE Spec2Model ----------------------------
(***************************************************************************)
(* State-machine model of the znova_fleet core: the policy engine          *)
(* (backend/core/policy.py), the domain expression engine                  *)
(* (backend/core/domain_engine.py) and the record runtime                  *)
(* (backend/core/base_model.py).                                           *)
(*                                                                         *)
(* Python values are modelled as records of one shape,                     *)
(*   [t |-> type tag, n |-> integer, s |-> sequence of strings,            *)
(*    l |-> sequence of integers].                                         *)
(* A Python str is held as the sequence of its tokens (s): a token is a    *)
(* run of characters the model never looks inside ("user", "id", "a"),     *)
(* and ".", "%" and "_" are tokens of their own, so that str.split('.'),   *)
(* str.startswith('user.') and pattern matching are computed on the value. *)
(***************************************************************************)
EXTENDS Integers, Sequences, FiniteSets, TLC

VARIABLES pol, eng, db, res, fleet, reg, ser

vars == <<pol, eng, db, res, fleet, reg, ser>>

(***************************************************************************)
(* Python values                                                           *)
(***************************************************************************)
PyNone == [t |-> "none", n |-> 0, s |-> <<>>, l |-> <<>>]

PyInt(i) == [t |-> "int", n |-> i, s |-> <<>>, l |-> <<>>]

PyStr(toks) == [t |-> "str", n |-> 0, s |-> toks, l |-> <<>>]

PyBool(b) == [t |-> "bool", n |-> IF b THEN 1 ELSE 0, s |-> <<>>, l |-> <<>>]

PyList(ints) == [t |-> "list", n |-> 0, s |-> <<>>, l |-> ints]

\* A datetime: n is the clock reading, s the UTC offset it carries (an
\* aware datetime) or nothing (a naive one).
PyDatetime(clock, offset) == [t |-> "datetime", n |-> clock, s |-> offset, l |-> <<>>]

\* A model record reached through attribute access (the user, its role).
PyObj(kind) == [t |-> "obj", n |-> 0, s |-> <<kind>>, l |-> <<>>]

SeqToSet(q) == {q[i] : i \in 1..Len(q)}

(***************************************************************************)
(* Registry and declared role permissions (backend/models)                 *)
(***************************************************************************)
Actions == {"create", "read", "write", "delete"}

\* Names looked up in the registry; "ghost.model" is registered by nobody.
RegisteredModels ==
    {"fleet.vehicle", "fleet.trip", "fleet.expense", "fleet.driver",
     "activity", "audit.log"}

ModelNames == RegisteredModels \cup {"ghost.model"}

\* audit.log declares no _role_permissions attribute.
HasRolePermissions(m) == m # "audit.log"

Perm(c, r, w, d) == [create |-> c, read |-> r, write |-> w, delete |-> d]

\* _role_permissions of each model: role name -> permission entry.  A role
\* without an entry is absent from the function's domain.
RolePermissions(m) ==
    CASE m = "fleet.vehicle" ->
           [r \in {"fleet_manager", "dispatcher", "safety_officer", "financial_analyst"} |->
              IF r = "fleet_manager" THEN Perm(TRUE, TRUE, TRUE, TRUE)
              ELSE Perm(FALSE, TRUE, FALSE, FALSE)]
      [] m = "fleet.trip" ->
           [r \in {"fleet_manager", "dispatcher", "safety_officer", "financial_analyst"} |->
              CASE r = "fleet_manager" -> Perm(TRUE, TRUE, TRUE, TRUE)
                [] r = "dispatcher" -> Perm(TRUE, TRUE, TRUE, FALSE)
                [] r = "safety_officer" -> Perm(FALSE, TRUE, FALSE, FALSE)
                [] OTHER -> Perm(FALSE, FALSE, FALSE, FALSE)]
      [] m = "fleet.expense" ->
           [r \in {"fleet_manager", "dispatcher", "safety_officer", "financial_analyst"} |->
              CASE r = "fleet_manager" -> Perm(TRUE, TRUE, TRUE, TRUE)
                [] r = "financial_analyst" -> Perm(FALSE, TRUE, FALSE, FALSE)
                [] OTHER -> Perm(FALSE, FALSE, FALSE, FALSE)]
      [] m = "fleet.driver" ->
           [r \in {"fleet_manager", "dispatcher", "safety_officer", "financial_analyst"} |->
              CASE r = "fleet_manager" -> Perm(TRUE, TRUE, TRUE, TRUE)
                [] r = "dispatcher" -> Perm(FALSE, TRUE, FALSE, FALSE)
                [] r = "safety_officer" -> Perm(FALSE, TRUE, TRUE, FALSE)
                [] OTHER -> Perm(FALSE, FALSE, FALSE, FALSE)]
      [] m = "activity" ->
           [r \in {"admin", "fleet_manager", "dispatcher", "safety_officer", "financial_analyst"} |->
              IF r = "admin" THEN Perm(TRUE, TRUE, TRUE, TRUE)
              ELSE Perm(FALSE, TRUE, FALSE, FALSE)]
      [] OTHER -> [r \in {} |-> Perm(FALSE, FALSE, FALSE, FALSE)]

(***************************************************************************)
(* Users handed to the policy engine                                       *)
(***************************************************************************)
\* role "user" is a role name no fleet model declares an entry for.
RoleNames == {"admin", "fleet_manager", "dispatcher", "safety_officer",
              "financial_analyst", "user"}

NoUser == [present |-> FALSE, hasRole |-> FALSE, role |-> "", id |-> 0]

MaxUserId == 2

Users ==
    {NoUser}
    \cup {[present |-> TRUE, hasRole |-> FALSE, role |-> "", id |-> 1]}
    \cup {[present |-> TRUE, hasRole |-> TRUE, role |-> r, id |-> i] :
             r \in RoleNames, i \in 1..MaxUserId}

\* The context argument of can_access_record: None, or a mapping that may
\* carry is_many2one_relation and parent_model ("" when the key is absent).
NoContext == [given |-> FALSE, flag |-> FALSE, parent |-> ""]

Contexts ==
    {NoContext}
    \cup {[given |-> TRUE, flag |-> f, parent |-> p] :
             f \in BOOLEAN, p \in ModelNames \cup {""}}

(***************************************************************************)
(* PolicyEngine.can_access_record                                          *)
(***************************************************************************)
RECURSIVE can_access_record(_, _, _, _)

\* The lookup as it would read if a role without an entry were let through.
RolePermsLookupMissingRoleAllowed(model_name, role_name, action) ==
    LET perms == RolePermissions(model_name)
    IN  IF role_name \in DOMAIN perms THEN perms[role_name][action] ELSE TRUE

\* role_perms = _role_permissions.get(role_name, {}); role_perms.get(action, False)
RolePermsLookup(model_name, role_name, action) ==
    LET perms == RolePermissions(model_name)
    IN  IF role_name \in DOMAIN perms THEN perms[role_name][action] ELSE FALSE

\* The carve-out as it would read without the test on the action.
CarveOutAnyAction(user, model_name, action, context) ==
    /\ context.given
    /\ context.flag
    /\ context.parent # ""
    /\ context.parent # model_name
    /\ can_access_record(user, context.parent, "read", NoContext)

\* The many-to-one carve-out (policy.py lines 19-23).
CarveOutApplies(user, model_name, action, context) ==
    /\ action = "read"
    /\ context.given
    /\ context.flag
    /\ context.parent # ""
    /\ context.parent # model_name
    /\ can_access_record(user, context.parent, "read", NoContext)

can_access_record(user, model_name, action, context) ==
    IF ~user.present \/ ~user.hasRole THEN FALSE
    ELSE IF user.role = "admin" THEN TRUE
    ELSE IF CarveOutApplies(user, model_name, action, context) THEN TRUE
    ELSE IF model_name \notin RegisteredModels THEN FALSE
    ELSE IF HasRolePermissions(model_name)
         THEN RolePermsLookup(model_name, user.role, action)
         ELSE FALSE


(***************************************************************************)
(* Strings                                                                 *)
(***************************************************************************)
RECURSIVE SplitDots(_, _)

\* str.split('.'): cur is the segment being read.
SplitDots(toks, cur) ==
    IF toks = <<>> THEN <<cur>>
    ELSE IF Head(toks) = "." THEN <<cur>> \o SplitDots(Tail(toks), <<>>)
    ELSE SplitDots(Tail(toks), Append(cur, Head(toks)))

Split(toks) == SplitDots(toks, <<>>)

\* str.lower(): the upper-case letters of the model's alphabet.
Lower(toks) ==
    [i \in 1..Len(toks) |->
        CASE toks[i] = "A" -> "a"
          [] toks[i] = "B" -> "b"
          [] toks[i] = "DETAIL:" -> "detail:"
          [] OTHER -> toks[i]]

\* str(value)
StrOf(v) ==
    CASE v.t = "str" -> v.s
      [] v.t = "int" -> <<ToString(v.n)>>
      [] v.t = "bool" -> IF v.n = 1 THEN <<"True">> ELSE <<"False">>
      [] v.t = "none" -> <<"None">>
      [] v.t = "list" -> <<"[", "list", "]">>
      [] v.t = "dict" -> <<"{", "dict", "}">>
      [] v.t = "obj" -> <<"<", "object", ">">>

\* bool(value)
Truthy(v) ==
    CASE v.t = "none" -> FALSE
      [] v.t \in {"int", "bool"} -> v.n # 0
      [] v.t = "str" -> v.s # <<>>
      [] v.t = "list" -> v.l # <<>>
      [] v.t = "dict" -> v.s # <<>>
      [] v.t = "obj" -> TRUE

IsNumber(v) == v.t \in {"int", "bool"}

\* Python ==
PyEq(a, b) ==
    IF IsNumber(a) /\ IsNumber(b) THEN a.n = b.n
    ELSE a = b

(***************************************************************************)
(* Pattern matching: re.search on the compiled LIKE pattern, and the       *)
(* storage layer's own LIKE                                                *)
(***************************************************************************)
\* pattern_str.replace('%', '.*').replace('_', '.'); a '.' of the pattern
\* is already the regex's any-character.
LikeToRegex(toks) ==
    [i \in 1..Len(toks) |->
        CASE toks[i] = "%" -> ".*"
          [] toks[i] = "_" -> "."
          [] OTHER -> toks[i]]

RECURSIVE RegexMatchHere(_, _)

RegexMatchHere(re, txt) ==
    IF re = <<>> THEN TRUE
    ELSE IF Head(re) = ".*"
         THEN \E k \in 0..Len(txt) : RegexMatchHere(Tail(re), SubSeq(txt, k + 1, Len(txt)))
    ELSE IF txt = <<>> THEN FALSE
    ELSE IF Head(re) = "." THEN RegexMatchHere(Tail(re), Tail(txt))
    ELSE Head(re) = Head(txt) /\ RegexMatchHere(Tail(re), Tail(txt))

\* re.search: a match starting anywhere.
RegexSearch(re, txt) ==
    \E i \in 1..(Len(txt) + 1) : RegexMatchHere(re, SubSeq(txt, i, Len(txt)))

RECURSIVE SqlLikeMatch(_, _)

\* SQL LIKE: the whole text against the pattern, % any run, _ one character.
SqlLikeMatch(pat, txt) ==
    IF pat = <<>> THEN txt = <<>>
    ELSE IF Head(pat) = "%"
         THEN \E k \in 0..Len(txt) : SqlLikeMatch(Tail(pat), SubSeq(txt, k + 1, Len(txt)))
    ELSE IF txt = <<>> THEN FALSE
    ELSE IF Head(pat) = "_" THEN SqlLikeMatch(Tail(pat), Tail(txt))
    ELSE Head(pat) = Head(txt) /\ SqlLikeMatch(Tail(pat), Tail(txt))

(***************************************************************************)
(* DomainEngine comparisons                                                *)
(***************************************************************************)
DictHasId(v) == v.t = "dict" /\ Len(v.s) >= 1 /\ v.s[1] = "id"

\* value['id'] of a many-to-one dict: s = <<"id", kind>>, kind the id's type.
DictId(v) ==
    CASE v.s[2] = "none" -> PyNone
      [] v.s[2] = "int" -> PyInt(v.n)
      [] v.s[2] = "str" -> PyStr(<<>>)

\* Only None counted as empty.
IsEmptyValueNoneOnly(value) == value.t = "none"

\* value.strip() == '' on the model's alphabet: blanks are the token " ".
_is_empty_value(value) ==
    IF value.t = "none" THEN TRUE
    ELSE IF value.t = "bool" /\ value.n = 0 THEN TRUE
    ELSE IF value.t = "str" /\ (\A i \in 1..Len(value.s) : value.s[i] = " ") THEN TRUE
    ELSE IF value.t = "list" /\ value.l = <<>> THEN TRUE
    ELSE IF value.t = "dict" /\ value.s = <<>> THEN TRUE
    ELSE IF value.t = "dict"
         THEN IF DictHasId(value)
              THEN DictId(value).t = "none"
                   \/ (DictId(value).t = "int" /\ DictId(value).n = 0)
                   \/ DictId(value) = PyStr(<<>>)
              ELSE FALSE
    ELSE IF value.t = "int" /\ value.n = 0 THEN TRUE
    ELSE FALSE

_compare_equal(field_value, expected_value) ==
    IF expected_value.t = "bool" /\ expected_value.n = 0
    THEN _is_empty_value(field_value)
    ELSE IF field_value.t = "none" /\ expected_value.t = "none" THEN TRUE
    ELSE IF field_value.t = "none" \/ expected_value.t = "none" THEN FALSE
    ELSE LET fv == IF DictHasId(field_value) THEN DictId(field_value) ELSE field_value
         IN  IF expected_value.t = "bool" THEN Truthy(fv) = (expected_value.n = 1)
             ELSE IF expected_value.t = "str" THEN StrOf(fv) = expected_value.s
             ELSE PyEq(fv, expected_value)

\* field_value < expected_value raises TypeError unless both are numbers
\* (or both str, which the model's inputs never order).
_compare_less_than(field_value, expected_value) ==
    IF field_value.t = "none" \/ expected_value.t = "none" THEN FALSE
    ELSE CASE IsNumber(field_value) /\ IsNumber(expected_value) ->
                field_value.n < expected_value.n

_compare_greater_than(field_value, expected_value) ==
    IF field_value.t = "none" \/ expected_value.t = "none" THEN FALSE
    ELSE CASE IsNumber(field_value) /\ IsNumber(expected_value) ->
                field_value.n > expected_value.n

_compare_less_equal(field_value, expected_value) ==
    _compare_less_than(field_value, expected_value)
    \/ _compare_equal(field_value, expected_value)

_compare_greater_equal(field_value, expected_value) ==
    _compare_greater_than(field_value, expected_value)
    \/ _compare_equal(field_value, expected_value)

_compare_in(field_value, expected_values) ==
    IF expected_values.t # "list" THEN _compare_equal(field_value, expected_values)
    ELSE LET fv == IF DictHasId(field_value) THEN DictId(field_value) ELSE field_value
         IN  \E i \in 1..Len(expected_values.l) : PyEq(fv, PyInt(expected_values.l[i]))

_compare_like(field_value, pattern) ==
    IF field_value.t = "none" \/ pattern.t = "none" THEN FALSE
    ELSE RegexSearch(LikeToRegex(StrOf(pattern)), StrOf(field_value))

_compare_ilike(field_value, pattern) ==
    IF field_value.t = "none" \/ pattern.t = "none" THEN FALSE
    ELSE RegexSearch(LikeToRegex(Lower(StrOf(pattern))), Lower(StrOf(field_value)))

\* The operator dispatch of _evaluate_condition on values already looked up.
CompareByOperator(operator, field_value, expected_value) ==
    CASE operator = "=" -> _compare_equal(field_value, expected_value)
      [] operator = "!=" -> ~_compare_equal(field_value, expected_value)
      [] operator = "<" -> _compare_less_than(field_value, expected_value)
      [] operator = ">" -> _compare_greater_than(field_value, expected_value)
      [] operator = "<=" -> _compare_less_equal(field_value, expected_value)
      [] operator = ">=" -> _compare_greater_equal(field_value, expected_value)
      [] operator = "in" -> _compare_in(field_value, expected_value)
      [] operator = "not in" -> ~_compare_in(field_value, expected_value)
      [] operator = "like" -> _compare_like(field_value, expected_value)
      [] operator = "ilike" -> _compare_ilike(field_value, expected_value)
      [] OTHER -> FALSE


(***************************************************************************)
(* DomainEngine: user context, parsing, evaluation                         *)
(***************************************************************************)
\* A user mapping: the user_context argument, or whatever a record context
\* holds under its own key 'user'.  given = FALSE is None; keys are the keys
\* present; role is a dict (roleKeys its keys) or a str.
UserMap(given, keys, source, id, roleIsDict, roleKeys, roleName) ==
    [given |-> given, keys |-> keys, source |-> source, id |-> id,
     roleIsDict |-> roleIsDict, roleKeys |-> roleKeys, roleName |-> roleName]

NoUserMap == UserMap(FALSE, {}, "", 0, FALSE, {}, "")

\* bool(user_context): None and the empty mapping are falsy.
UserMapTruthy(um) == um.given /\ um.keys # {}

validate_secure_user_context(user_context) ==
    IF ~UserMapTruthy(user_context) THEN FALSE
    ELSE IF ~("_source" \in user_context.keys /\ user_context.source = "jwt") THEN FALSE
    ELSE IF ~({"id", "email", "role"} \subseteq user_context.keys) THEN FALSE
    ELSE IF ~(user_context.roleIsDict /\ "name" \in user_context.roleKeys) THEN FALSE
    ELSE TRUE

\* Walking a user mapping along the parts of a path: dict.get at each step,
\* None as soon as a key is missing or the value is no mapping.
LookupUserMap(um, parts) ==
    IF parts = <<>> THEN PyStr(<<"{", "dict", "}">>)
    ELSE IF Head(parts) = <<"id">> /\ "id" \in um.keys
         THEN IF Len(parts) = 1 THEN PyInt(um.id) ELSE PyNone
    ELSE IF Head(parts) = <<"email">> /\ "email" \in um.keys
         THEN IF Len(parts) = 1 THEN PyStr(<<"u", "@", "x">>) ELSE PyNone
    ELSE IF Head(parts) = <<"_source">> /\ "_source" \in um.keys
         THEN IF Len(parts) = 1 THEN PyStr(<<um.source>>) ELSE PyNone
    ELSE IF Head(parts) = <<"role">> /\ "role" \in um.keys
         THEN IF Len(parts) = 1
              THEN IF um.roleIsDict THEN PyStr(<<"{", "dict", "}">>) ELSE PyStr(<<um.roleName>>)
              ELSE IF um.roleIsDict /\ Len(parts) = 2 /\ parts[2] = <<"name">>
                      /\ "name" \in um.roleKeys
                   THEN PyStr(<<um.roleName>>)
                   ELSE PyNone
    ELSE PyNone

\* A record context holds its scalar fields, and what it has under 'user'.
_get_field_value(field_path, context, user_context) ==
    LET parts == Split(field_path)
    IN  IF parts[1] = <<"user">> /\ UserMapTruthy(user_context)
        THEN LookupUserMap(user_context, Tail(parts))
        ELSE IF parts[1] = <<"user">>
             THEN IF context.user.given
                  THEN LookupUserMap(context.user, Tail(parts))
                  ELSE PyNone
        ELSE IF Len(parts) = 1 /\ Len(parts[1]) = 1
             THEN IF parts[1][1] \in DOMAIN context.fields
                  THEN context.fields[parts[1][1]]
                  ELSE PyNone
        ELSE PyNone

\* re.search raises re.error on a pattern that does not compile: on the
\* model's alphabet, one with an opening parenthesis (none is ever closed).
\* The other comparisons raise nothing: the ordering comparisons catch their
\* TypeError themselves.
CompareRaises(operator, field_value, expected_value) ==
    /\ operator \in {"like", "ilike"}
    /\ field_value.t # "none"
    /\ expected_value.t # "none"
    /\ \E i \in 1..Len(StrOf(expected_value)) : StrOf(expected_value)[i] = "("

\* A condition whose comparison raised counted as satisfied.
EvaluateConditionErrorIsTrue(condition, context, user_context) ==
    LET field_value == _get_field_value(condition.field, context, user_context)
    IN  \/ CompareRaises(condition.op, field_value, condition.value)
        \/ CompareByOperator(condition.op, field_value, condition.value)

\* _evaluate_condition: the operator dispatch runs inside try/except
\* Exception, which returns False.
_evaluate_condition(condition, context, user_context) ==
    LET field_value == _get_field_value(condition.field, context, user_context)
    IN  IF CompareRaises(condition.op, field_value, condition.value) THEN FALSE
        ELSE CompareByOperator(condition.op, field_value, condition.value)

\* A group satisfied by any one of its conditions.
EvaluateGroupAny(group, context, user_context) ==
    \E i \in 1..Len(group) : _evaluate_condition(group[i], context, user_context)

_evaluate_group(group, context, user_context) ==
    \A i \in 1..Len(group) : _evaluate_condition(group[i], context, user_context)

SUPPORTED_OPERATORS == {"=", "!=", "<", ">", "<=", ">=", "in", "not in", "like", "ilike"}

LOGICAL_OPERATORS == {"&", "|"}

\* What ast.literal_eval yields for one element of the list: a tuple
\* (k = "tuple": arity, and for arity 3 field/op/value), a list of tuples
\* (k = "list"), a str (k = "str") or anything else (k = "other").
WellFormedCondition(c) ==
    c.arity = 3 /\ c.fieldIsStr /\ c.op \in SUPPORTED_OPERATORS

\* _parse_simple_expression: [ok, groups, operators].
_parse_simple_expression(parsed) ==
    IF \A i \in 1..Len(parsed) : parsed[i].k = "tuple" /\ WellFormedCondition(parsed[i].c)
    THEN [ok |-> TRUE, groups |-> <<[i \in 1..Len(parsed) |-> parsed[i].c]>>, operators |-> <<>>]
    ELSE [ok |-> FALSE, groups |-> <<>>, operators |-> <<>>]

RECURSIVE ComplexGroups(_)

ComplexGroups(parsed) ==
    IF parsed = <<>> THEN <<>>
    ELSE LET item == Head(parsed)
         IN  IF item.k = "list" THEN <<item.g>> \o ComplexGroups(Tail(parsed))
             ELSE IF item.k = "tuple" THEN <<<<item.c>>>> \o ComplexGroups(Tail(parsed))
             ELSE ComplexGroups(Tail(parsed))

RECURSIVE ComplexOperators(_)

ComplexOperators(parsed) ==
    IF parsed = <<>> THEN <<>>
    ELSE LET item == Head(parsed)
         IN  IF item.k = "str" THEN <<item.v>> \o ComplexOperators(Tail(parsed))
             ELSE ComplexOperators(Tail(parsed))

\* Any str taken for a logical operator.
ComplexItemOkAnyStr(item) ==
    \/ item.k = "str"
    \/ item.k = "list" /\ \A j \in 1..Len(item.g) : WellFormedCondition(item.g[j])
    \/ item.k = "tuple" /\ WellFormedCondition(item.c)

ComplexItemOk(item) ==
    \/ item.k = "str" /\ item.v \in LOGICAL_OPERATORS
    \/ item.k = "list" /\ \A j \in 1..Len(item.g) : WellFormedCondition(item.g[j])
    \/ item.k = "tuple" /\ WellFormedCondition(item.c)

_parse_complex_expression(parsed) ==
    LET groups == ComplexGroups(parsed)
        operators == ComplexOperators(parsed)
    IN  IF (\A i \in 1..Len(parsed) : ComplexItemOk(parsed[i]))
           /\ Len(operators) = Len(groups) - 1
        THEN [ok |-> TRUE, groups |-> groups, operators |-> operators]
        ELSE [ok |-> FALSE, groups |-> <<>>, operators |-> <<>>]

\* An expression text: blank, text literal_eval cannot read as a list
\* (kind "invalid"), or the list it reads (items).
parse_expression(expression) ==
    IF expression.kind = "blank" THEN [ok |-> TRUE, groups |-> <<>>, operators |-> <<>>]
    ELSE IF expression.kind = "invalid" THEN [ok |-> FALSE, groups |-> <<>>, operators |-> <<>>]
    ELSE LET parsed == expression.items
             has_nested_lists == \E i \in 1..Len(parsed) : parsed[i].k = "list"
             has_operators ==
                 \E i \in 1..Len(parsed) : parsed[i].k = "str" /\ parsed[i].v \in LOGICAL_OPERATORS
         IN  IF has_nested_lists \/ has_operators
             THEN _parse_complex_expression(parsed)
             ELSE _parse_simple_expression(parsed)

RECURSIVE ApplyOperatorsAndFirst(_, _, _)

\* '&' binding tighter than '|'.
ApplyOperatorsAndFirst(result, operators, rest) ==
    IF operators = <<>> THEN result
    ELSE IF Head(operators) = "|"
         THEN result \/ ApplyOperatorsAndFirst(Head(rest), Tail(operators), Tail(rest))
         ELSE ApplyOperatorsAndFirst(result /\ Head(rest), Tail(operators), Tail(rest))

RECURSIVE ApplyOperators(_, _, _)

\* "Apply operators left to right": result so far, then operators[i] with
\* group_results[i + 1].
ApplyOperators(result, operators, rest) ==
    IF operators = <<>> THEN result
    ELSE ApplyOperators(IF Head(operators) = "|" THEN result \/ Head(rest)
                                                 ELSE result /\ Head(rest),
                        Tail(operators), Tail(rest))

Value(b) == [outcome |-> "value", value |-> b]

Raised(e) == [outcome |-> e, value |-> FALSE]

evaluate(expression, context, user_context) ==
    IF expression.kind = "blank" THEN Value(TRUE)
    ELSE IF UserMapTruthy(user_context) /\ ~validate_secure_user_context(user_context)
         THEN Raised("DomainEvaluationError")
    ELSE LET domain_ast == parse_expression(expression)
         IN  IF ~domain_ast.ok THEN Raised("DomainEvaluationError")
             ELSE IF domain_ast.groups = <<>> THEN Value(TRUE)
             ELSE LET group_results ==
                          [i \in 1..Len(domain_ast.groups) |->
                              _evaluate_group(domain_ast.groups[i], context, user_context)]
                  IN  IF domain_ast.operators = <<>> THEN Value(group_results[1])
                      ELSE Value(ApplyOperators(group_results[1], domain_ast.operators,
                                                Tail(group_results)))

safe_evaluate(expression, context, default, user_context) ==
    IF UserMapTruthy(user_context) /\ ~validate_secure_user_context(user_context)
    THEN Value(default)
    ELSE LET r == evaluate(expression, context, user_context)
         IN  IF r.outcome = "value" THEN r ELSE Value(default)

(***************************************************************************)
(* PolicyEngine: domain rules                                              *)
(***************************************************************************)
\* hasattr(value, part) for the records a user.* path walks: the user
\* (id, email, role, phone) and its role (id, name).
HasAttr(value, part) ==
    /\ value.t = "obj"
    /\ \/ value.s = <<"user">> /\ part \in {<<"id">>, <<"email">>, <<"role">>, <<"phone">>}
       \/ value.s = <<"role">> /\ part \in {<<"id">>, <<"name">>}

\* getattr(value, part); a user's phone is unset (None).
GetAttr(value, part, user) ==
    CASE value.s = <<"user">> /\ part = <<"id">> -> PyInt(user.id)
      [] value.s = <<"user">> /\ part = <<"email">> -> PyStr(<<"u", ToString(user.id), "@", "x">>)
      [] value.s = <<"user">> /\ part = <<"role">> -> PyObj("role")
      [] value.s = <<"user">> /\ part = <<"phone">> -> PyNone
      [] value.s = <<"role">> /\ part = <<"id">> -> PyInt(1)
      [] value.s = <<"role">> /\ part = <<"name">> -> PyStr(<<user.role>>)

RECURSIVE WalkUserPath(_, _, _)

\* The loop over parts[1:] of _resolve_domain_context.
WalkUserPath(resolved_value, parts, user) ==
    IF parts = <<>> THEN resolved_value
    ELSE IF resolved_value.t = "none" THEN resolved_value
    ELSE IF HasAttr(resolved_value, Head(parts))
         THEN WalkUserPath(GetAttr(resolved_value, Head(parts), user), Tail(parts), user)
    ELSE PyNone

\* The test as it would read if no value were ever taken for a user.* reference.
NeverAUserReference(value) == FALSE

\* isinstance(value, str) and value.startswith('user.')
IsUserReference(value) ==
    value.t = "str" /\ Len(value.s) >= 2 /\ value.s[1] = "user" /\ value.s[2] = "."

RECURSIVE _resolve_domain_context(_, _)

_resolve_domain_context(domain, user) ==
    IF domain = <<>> THEN <<>>
    ELSE LET criterion == Head(domain)
             rest == _resolve_domain_context(Tail(domain), user)
         IN  IF criterion.len # 3 THEN rest
             ELSE IF IsUserReference(criterion.value)
                  THEN LET resolved_value ==
                               WalkUserPath(PyObj("user"), Tail(Split(criterion.value.s)), user)
                       IN  IF resolved_value.t # "none"
                           THEN <<[criterion EXCEPT !.value = resolved_value]>> \o rest
                           ELSE rest
             ELSE <<criterion>> \o rest

\* declared stands for model_cls._role_permissions[role]['domain'].
get_domain_filter(user, model_name, declared) ==
    IF ~user.present \/ ~user.hasRole THEN <<>>
    ELSE IF model_name \notin RegisteredModels \/ ~HasRolePermissions(model_name) THEN <<>>
    ELSE IF user.role \notin DOMAIN RolePermissions(model_name) THEN <<>>
    ELSE _resolve_domain_context(declared, user)

\* The rows of the filtered model's table.
TableFields == {"id", "performed_by_id", "priority", "name"}

TableRows ==
    { [id |-> PyInt(1), performed_by_id |-> PyInt(1), priority |-> PyInt(0), name |-> PyStr(<<"a", "b">>)],
      [id |-> PyInt(2), performed_by_id |-> PyInt(2), priority |-> PyInt(1), name |-> PyStr(<<"A">>)],
      [id |-> PyInt(3), performed_by_id |-> PyInt(1), priority |-> PyInt(2), name |-> PyStr(<<"b", ".", "a">>)],
      [id |-> PyInt(4), performed_by_id |-> PyInt(2), priority |-> PyNone, name |-> PyStr(<<"b">>)] }

\* One query.filter(...) of apply_domain_filter on one row, with the storage
\* layer's three-valued comparisons: a NULL column passes no comparison.
FilterKeeps(row, field, operator, value) ==
    IF field \notin TableFields THEN TRUE
    ELSE LET attr == row[field]
         IN  CASE operator = "=" -> attr.t # "none" /\ PyEq(attr, value)
               [] operator = "!=" -> attr.t # "none" /\ ~PyEq(attr, value)
               [] operator = "in" ->
                    IF value.t = "list"
                    THEN attr.t # "none" /\ \E i \in 1..Len(value.l) : PyEq(attr, PyInt(value.l[i]))
                    ELSE TRUE
               [] operator = ">" -> attr.t # "none" /\ attr.n > value.n
               [] operator = "<" -> attr.t # "none" /\ attr.n < value.n
               [] operator = ">=" -> attr.t # "none" /\ attr.n >= value.n
               [] operator = "<=" -> attr.t # "none" /\ attr.n <= value.n
               [] operator = "ilike" ->
                    attr.t # "none"
                    /\ SqlLikeMatch(Lower(<<"%">> \o StrOf(value) \o <<"%">>), Lower(attr.s))
               [] OTHER -> TRUE

\* The rows of query that the query returned by apply_domain_filter yields.
apply_domain_filter(query, user, model_name, declared) ==
    LET domain == get_domain_filter(user, model_name, declared)
    IN  IF domain = <<>> THEN query
        ELSE IF model_name \notin RegisteredModels THEN query
        ELSE {row \in query :
                 \A i \in 1..Len(domain) :
                    FilterKeeps(row, domain[i].field, domain[i].op, domain[i].value)}

\* Whether a row satisfies a criterion, by the domain engine's evaluation of
\* the condition against the row's values (a field the row lacks is None).
RowSatisfies(row, criterion) ==
    CompareByOperator(criterion.op,
                      IF criterion.field \in TableFields THEN row[criterion.field] ELSE PyNone,
                      criterion.value)


(***************************************************************************)
(* Record runtime: the storage layer                                       *)
(*                                                                         *)
(* Three tables stand for the models of one application: owners (a model   *)
(* with a required Char column `name`, a One2many to children and a        *)
(* Many2many to targets), children (a required Char `name` and a required  *)
(* Many2one `parent_id` to owners) and targets.  owners also has an        *)
(* optional Char column `code` declared unique and an optional DateTime    *)
(* column `scheduled_date`.  `rel` is the junction table of the Many2many: *)
(* the (owner id, target id) pairs it holds a row for, and `twice` the     *)
(* pairs it holds more than one row for.  `audit` counts the audit-log     *)
(* rows; the fields name, code, scheduled_date and the Many2many (tag_ids) *)
(* of owners are tracked.                                                  *)
(***************************************************************************)
MaxOwnerId == 2

MaxChildId == 2

MaxAudit == 1

\* Char(size): the declared length of the `name` columns.
NameSize == 2

\* The ids of the rows of the user table, which audit_log.user_id refers to.
StoredUsers == {1}

\* db: what is committed, and the id sequences.  res: what the last request
\* returned or raised, with what held of the committed rows when it began.
\* As the application starts the targets table is seeded.
EmptyDb ==
    [c |-> [owners |-> {}, children |-> {}, targets |-> {1}, rel |-> {}, twice |-> {},
            audit |-> 0],
     seq |-> [owner |-> 0, child |-> 0]]

IdleRes ==
    [op |-> "idle", model |-> "", ids |-> {}, outcome |-> "", violated |-> "none",
     changed |-> FALSE, referenced |-> FALSE, linked |-> FALSE]

\* An audit_log row: change_type, its shape (the "Created" entry, the
\* single-field legacy shape, or the grouped shape with changes_json), the
\* fields it lists and the user it names.
AuditLog(change_type, shape, fields, user_id) ==
    [change_type |-> change_type, shape |-> shape, fields |-> fields, user_id |-> user_id]

\* The session of one request: c is what is committed, w what the open
\* transaction sees, seq the id sequences (never rolled back), exc/msg the
\* exception in flight, aborted whether a statement of the open transaction
\* has failed, pendingAudit the audit entries added but not yet flushed,
\* entries those committed, violated the first constraint the storage layer
\* reported broken, steps the steps the running create or write has begun,
\* reversed whether a SELECT without ORDER BY returns the junction rows the
\* request rewrote in descending rather than ascending order of target id.
Session(store, seq) ==
    [c |-> store, w |-> store, seq |-> seq, exc |-> "none", msg |-> <<>>,
     aborted |-> FALSE, pendingAudit |-> <<>>, entries |-> <<>>, violated |-> "none",
     steps |-> <<>>, reversed |-> FALSE]

\* The running create or write reaches one of its steps.
Step(S, name) == IF S.exc # "none" THEN S ELSE [S EXCEPT !.steps = Append(@, name)]

Raise(S, exc, msg) == [S EXCEPT !.exc = exc, !.msg = msg]

NoViolation == [kind |-> "none", exc |-> "none", msg |-> <<>>]

\* What PostgreSQL answers to a statement that breaks a constraint.
StorageError(kind) ==
    CASE kind = "not_null" ->
           [kind |-> kind, exc |-> "IntegrityError",
            msg |-> <<"null value in column", "violates", "not-null constraint">>]
      [] kind = "fk_insert" ->
           [kind |-> kind, exc |-> "IntegrityError",
            msg |-> <<"insert or update on table", "violates", "foreign key constraint",
                      "DETAIL:", "is not present in table">>]
      [] kind = "fk_referenced" ->
           [kind |-> kind, exc |-> "IntegrityError",
            msg |-> <<"update or delete on table", "violates", "foreign key constraint",
                      "on table", "DETAIL:", "is still referenced", "from table">>]
      [] kind = "unique" ->
           [kind |-> kind, exc |-> "IntegrityError",
            msg |-> <<"duplicate key value", "violates", "unique constraint">>]
      [] kind = "too_long" ->
           [kind |-> kind, exc |-> "DataError",
            msg |-> <<"value too long for type character varying">>]

\* One statement sent to the storage layer: it fails in a transaction already
\* aborted, fails and aborts the transaction on a violation, or takes effect.
Execute(S, violation, w2, seq2) ==
    IF S.exc # "none" THEN S
    ELSE IF S.aborted
         THEN Raise(S, "InternalError", <<"current transaction is aborted">>)
    ELSE IF violation.exc # "none"
         THEN [S EXCEPT !.exc = violation.exc, !.msg = violation.msg, !.aborted = TRUE,
                        !.seq = seq2,
                        !.violated = IF @ = "none" THEN violation.kind ELSE @]
    ELSE [S EXCEPT !.w = w2, !.seq = seq2]

\* session.add of an audit entry: nothing is sent until the next flush.
AddAuditEntry(S, entry) ==
    IF S.exc # "none" THEN S ELSE [S EXCEPT !.pendingAudit = Append(@, entry)]

\* session.commit(): pending entries are flushed (the INSERT of an entry
\* whose user_id names no user breaks audit_log's foreign key), then COMMIT;
\* the COMMIT of an aborted transaction rolls it back without an error.
commit(S) ==
    LET pending == S.pendingAudit
        B == Step(S, "commit")
        F == IF pending = <<>> THEN B
             ELSE Execute([B EXCEPT !.pendingAudit = <<>>],
                          IF \E i \in 1..Len(pending) : pending[i].user_id \notin StoredUsers
                          THEN StorageError("fk_insert") ELSE NoViolation,
                          [B.w EXCEPT !.audit = @ + Len(pending)], B.seq)
    IN  IF F.exc # "none" THEN F
        ELSE IF F.aborted THEN [F EXCEPT !.w = F.c, !.aborted = FALSE]
        ELSE [F EXCEPT !.c = F.w, !.entries = @ \o pending]

rollback(S) == [S EXCEPT !.w = S.c, !.aborted = FALSE, !.pendingAudit = <<>>]

\* session.refresh(record): the row is read back.
refresh(S, model, id) ==
    LET rows == IF model = "owner" THEN S.w.owners ELSE S.w.children
    IN  IF S.exc # "none" THEN S
        ELSE IF S.aborted
             THEN Raise(S, "InternalError", <<"current transaction is aborted">>)
        ELSE IF \E r \in rows : r.id = id THEN S
        ELSE Raise(S, "InvalidRequestError", <<"could not refresh instance">>)

\* The checks of a `name` column: NOT NULL (required=True) and its length.
ColumnViolation(value) ==
    IF value = PyNone THEN StorageError("not_null")
    ELSE IF Len(value.s) > NameSize THEN StorageError("too_long")
    ELSE NoViolation

\* Many2one(ondelete=...) and required=... of children.parent_id.
ParentOnDelete == "set null"

ParentRequired == TRUE

\* `phrase in msg`
Contains(msg, phrase) ==
    \E i \in 0..(Len(msg) - Len(phrase)) : SubSeq(msg, i + 1, i + Len(phrase)) = phrase

(***************************************************************************)
(* Record runtime: BaseModel.create, write, unlink and Recordset.unlink    *)
(*                                                                         *)
(* A payload is [hasName, name, parent_id, o2m, m2m, hasCode, code,        *)
(* hasDate, scheduled_date, id]: o2m is the value given for the One2many   *)
(* field ([create, update, delete]), m2m the value given for the Many2many *)
(* field (a list, or a dict with add / remove), id the value given under   *)
(* the key 'id' (0 when the payload has no such key).  A datetime comes as *)
(* an ISO string: the date and time, then nothing or the suffix "Z".       *)
(***************************************************************************)
_parse_values(value) ==
    IF value = PyNone \/ value = PyStr(<<>>) THEN PyNone ELSE value

\* The clock reading an ISO date-and-time text denotes.
ClockOf(text) == CASE text = "2024-01-01T10:00:00" -> 10
                   [] text = "2024-01-01 10:00:00" -> 10

\* datetime.fromisoformat of a string whose 'Z' was replaced by '+00:00':
\* an aware datetime when the string carries an offset, a naive one when
\* it carries none.
fromisoformat(toks) ==
    PyDatetime(ClockOf(toks[1]),
               IF Len(toks) > 1 THEN <<IF toks[2] = "Z" THEN "+00:00" ELSE toks[2]>> ELSE <<>>)

\* _parse_values for a field of type datetime.
ParseDatetime(value) ==
    IF value = PyNone \/ value = PyStr(<<>>) THEN PyNone
    ELSE IF value.t = "str" THEN fromisoformat(value.s)
    ELSE value

\* What a DateTime column (timestamp without time zone) holds of a value
\* written to it, the session's time zone being UTC: the clock reading,
\* without offset.
StoredDatetime(value) == IF value = PyNone THEN PyNone ELSE PyDatetime(value.n, <<>>)

\* The except clauses of create and of write: rollback, then the taxonomy
\* error chosen from the message, or the exception as it came.
HandleStorageError(S) ==
    IF S.exc = "none" THEN S
    ELSE IF S.exc = "IntegrityError"
         THEN IF Contains(Lower(S.msg), <<"foreign key constraint">>)
              THEN IF Contains(S.msg, <<"violates", "foreign key constraint">>)
                      /\ Contains(S.msg, <<"is still referenced">>)
                   THEN Raise(rollback(S), "UserError", <<"has related data that depends on it">>)
                   ELSE Raise(rollback(S), "UserError", <<"due to data relationships">>)
              ELSE IF Contains(Lower(S.msg), <<"unique constraint">>)
                   THEN Raise(rollback(S), "UserError", <<"already exists">>)
                   ELSE Raise(rollback(S), "ValidationError", <<"database error">>)
    ELSE rollback(S)

\* session.add(record); session.flush(): the INSERT of the row.
InsertRow(S, model, id, name, parent_id, code, scheduled_date) ==
    IF model = "owner"
    THEN Execute(S,
                 IF ColumnViolation(name) # NoViolation THEN ColumnViolation(name)
                 ELSE IF (\E o \in S.w.owners : o.id = id)
                         \/ (code # PyNone /\ \E o \in S.w.owners : o.code = code)
                      THEN StorageError("unique")
                 ELSE NoViolation,
                 [S.w EXCEPT !.owners = @ \cup {[id |-> id, name |-> name, code |-> code,
                                                 scheduled_date |-> StoredDatetime(scheduled_date)]}],
                 [S.seq EXCEPT !.owner = id])
    ELSE Execute(S,
                 IF ColumnViolation(name) # NoViolation THEN ColumnViolation(name)
                 ELSE IF parent_id = 0 /\ ParentRequired THEN StorageError("not_null")
                 ELSE IF parent_id # 0 /\ ~(\E o \in S.w.owners : o.id = parent_id)
                      THEN StorageError("fk_insert")
                 ELSE NoViolation,
                 [S.w EXCEPT !.children = @ \cup {[id |-> id, name |-> name,
                                                   parent_id |-> parent_id]}],
                 [S.seq EXCEPT !.child = id])

\* setattr(self, key, value) for each key of the parsed values, then
\* session.flush(): the UPDATE of the row.  A value under 'id' is set like
\* any other; the primary key, the unique column and the foreign keys that
\* refer to the row are checked by the storage layer.
UpdateRow(S, model, id, vals) ==
    LET name == _parse_values(vals.name)
        code == _parse_values(vals.code)
        new_id == IF vals.id # 0 THEN vals.id ELSE id
        others == {o \in S.w.owners : o.id # id}
        Updated(o) == [id |-> new_id,
                       name |-> IF vals.hasName THEN name ELSE o.name,
                       code |-> IF vals.hasCode THEN code ELSE o.code,
                       scheduled_date |-> IF vals.hasDate
                                          THEN StoredDatetime(ParseDatetime(vals.scheduled_date))
                                          ELSE o.scheduled_date]
    IN  IF model = "owner"
        THEN Execute(S,
                     IF vals.hasName /\ ColumnViolation(name) # NoViolation
                     THEN ColumnViolation(name)
                     ELSE IF (\E o \in others : o.id = new_id)
                             \/ (vals.hasCode /\ code # PyNone /\ \E o \in others : o.code = code)
                          THEN StorageError("unique")
                     ELSE IF new_id # id
                             /\ ((\E c \in S.w.children : c.parent_id = id)
                                 \/ (\E r \in S.w.rel : r[1] = id))
                          THEN StorageError("fk_referenced")
                     ELSE NoViolation,
                     [S.w EXCEPT !.owners = {IF o.id = id THEN Updated(o) ELSE o : o \in @}],
                     S.seq)
        ELSE Execute(S, ColumnViolation(name),
                     [S.w EXCEPT !.children = {IF c.id = id THEN [c EXCEPT !.name = name] ELSE c
                                                 : c \in @}],
                     S.seq)

\* The junction table's foreign keys are not enforced.
JunctionKeysUnchecked(w) == TRUE

\* The two foreign keys of the junction table: every row names an existing
\* owner and an existing target.
JunctionKeysHold(w) ==
    \A r \in w.rel : (\E o \in w.owners : o.id = r[1]) /\ r[2] \in w.targets

\* The junction table declared without its primary key.
JunctionViolationNoPrimaryKey(w, sid, tid) ==
    IF ~JunctionKeysHold([w EXCEPT !.rel = @ \cup {<<sid, tid>>}])
    THEN StorageError("fk_insert")
    ELSE NoViolation

\* What the INSERT of a junction row breaks: its primary key, or a foreign key.
JunctionViolation(w, sid, tid) ==
    IF <<sid, tid>> \in w.rel THEN StorageError("unique")
    ELSE IF ~JunctionKeysHold([w EXCEPT !.rel = @ \cup {<<sid, tid>>}])
         THEN StorageError("fk_insert")
    ELSE NoViolation

\* except Exception as e: logger.error(...)
Swallow(S) == [S EXCEPT !.exc = "none", !.msg = <<>>]

RECURSIVE M2mInsert(_, _, _)

\* for tid in target_ids: INSERT INTO relation_table
M2mInsert(S, sid, tids) ==
    IF tids = <<>> THEN S
    ELSE M2mInsert(Execute(S, JunctionViolation(S.w, sid, Head(tids)),
                           [S.w EXCEPT !.rel = @ \cup {<<sid, Head(tids)>>},
                                       !.twice = IF <<sid, Head(tids)>> \in S.w.rel
                                                 THEN @ \cup {<<sid, Head(tids)>>} ELSE @],
                           S.seq),
                   sid, Tail(tids))

RECURSIVE M2mAdd(_, _, _)

\* for tid in add_ids: SELECT 1 ...; INSERT if it is not there
M2mAdd(S, sid, tids) ==
    IF tids = <<>> THEN S
    ELSE LET Q == Execute(S, NoViolation, S.w, S.seq)
             I == IF Q.exc = "none" /\ <<sid, Head(tids)>> \notin Q.w.rel
                  THEN Execute(Q, JunctionViolation(Q.w, sid, Head(tids)),
                               [Q.w EXCEPT !.rel = @ \cup {<<sid, Head(tids)>>},
                                           !.twice = IF <<sid, Head(tids)>> \in Q.w.rel
                                                     THEN @ \cup {<<sid, Head(tids)>>} ELSE @],
                               Q.seq)
                  ELSE Q
         IN  M2mAdd(Swallow(I), sid, Tail(tids))

\* The many2many branch of _process_relational_fields.
ProcessMany2many(S, sid, m2m) ==
    IF ~m2m.given THEN S
    ELSE IF m2m.isList
         THEN Swallow(M2mInsert(Execute(S, NoViolation,
                                        [S.w EXCEPT !.rel = {r \in @ : r[1] # sid},
                                                    !.twice = {r \in @ : r[1] # sid}], S.seq),
                                sid, m2m.list))
    ELSE LET A == IF m2m.hasAdd THEN M2mAdd(S, sid, m2m.add) ELSE S
         IN  IF m2m.remove # {}
             THEN Swallow(Execute(A, NoViolation,
                                  [A.w EXCEPT !.rel = {r \in @ : ~(r[1] = sid /\ r[2] \in m2m.remove)},
                                              !.twice = {r \in @ : ~(r[1] = sid /\ r[2] \in m2m.remove)}],
                                  A.seq))
             ELSE A

NoO2m == [create |-> <<>>, update |-> <<>>, delete |-> {}]

NoM2m == [given |-> FALSE, isList |-> FALSE, list |-> <<>>, hasAdd |-> FALSE, add |-> <<>>,
          remove |-> {}]

Vals(hasName, name, parent_id, o2m, m2m) ==
    [hasName |-> hasName, name |-> name, parent_id |-> parent_id, o2m |-> o2m, m2m |-> m2m,
     hasCode |-> FALSE, code |-> PyNone, hasDate |-> FALSE, scheduled_date |-> PyNone,
     id |-> 0]

\* The value of the Many2many attribute of record id as the relationship
\* loads it: the list of the targets its junction rows name.
RelationshipIds(w, id) ==
    LET ids == {r[2] : r \in {x \in w.rel : x[1] = id}}
    IN  PyList(CHOOSE q \in [1..Cardinality(ids) -> ids] :
                  \A i, j \in 1..Cardinality(ids) : i < j => q[i] < q[j])

\* format_value_for_audit for a Char field: None is shown as '', any other
\* value as str(value).
format_value_for_audit(value) == IF value = PyNone THEN <<>> ELSE StrOf(value)

\* The comparison made on the values as they are, not normalized.
ProcessFieldChangeRaw(field_type, old_value, new_value) == old_value # new_value

\* The normalization of a date/datetime value in process_field_change: a
\* datetime stays as it is, a string has 'Z' replaced by '+00:00' and 'T' by
\* a space and is parsed.
NormalizedDatetime(value) ==
    IF value = PyNone THEN PyNone
    ELSE IF value.t = "datetime" THEN value
    ELSE fromisoformat([i \in 1..Len(value.s) |->
                          CASE value.s[i] = "Z" -> "+00:00"
                            [] value.s[i] = "2024-01-01T10:00:00" -> "2024-01-01 10:00:00"
                            [] OTHER -> value.s[i]])

\* process_field_change: whether a change is reported (None is returned
\* when the normalized old and new values are equal).  A Many2many value is
\* normalized to the set of its ids, a datetime value to a datetime (a naive
\* and an aware datetime are never equal), a Char value to its display
\* string.
process_field_change(field_type, old_value, new_value) ==
    CASE field_type = "many2many" -> SeqToSet(old_value.l) # SeqToSet(new_value.l)
      [] field_type = "datetime" -> NormalizedDatetime(old_value) # NormalizedDatetime(new_value)
      [] OTHER -> format_value_for_audit(old_value) # format_value_for_audit(new_value)

\* The type the field metadata gives for a tracked field.
FieldType(f) ==
    CASE f = "tag_ids" -> "many2many" [] f = "scheduled_date" -> "datetime" [] OTHER -> "string"

\* One audit entry per changed field.
TrackFieldChangesPerField(S, old_values, new_values, user_id) ==
    LET Changed(f) ==
            /\ f \in new_values.keys
            /\ process_field_change(FieldType(f), old_values[f], new_values[f])
        changes == SelectSeq(<<"name", "code", "scheduled_date", "tag_ids">>, Changed)
    IN  IF changes = <<>> THEN S
        ELSE [S EXCEPT !.pendingAudit =
                 @ \o [i \in 1..Len(changes) |-> AuditLog("write", "single", <<changes[i]>>, user_id)]]

\* track_field_changes: the changes of the tracked fields named in
\* new_values are collected in the order of the field metadata; no entry is
\* added for none, the single-field shape for one, the grouped shape for more.
track_field_changes(S, old_values, new_values, user_id) ==
    LET Changed(f) ==
            /\ f \in new_values.keys
            /\ process_field_change(FieldType(f), old_values[f], new_values[f])
        changes == SelectSeq(<<"name", "code", "scheduled_date", "tag_ids">>, Changed)
    IN  IF changes = <<>> THEN S
        ELSE AddAuditEntry(S, AuditLog("write", IF Len(changes) = 1 THEN "single" ELSE "grouped",
                                       changes, user_id))

\* track_record_creation: one "Created" entry.
track_record_creation(S, user_id) ==
    AddAuditEntry(S, AuditLog("create", "record", <<"__record__">>, user_id))

\* Stored computed fields recomputed before the row is flushed.
CreateRowRecomputeFirst(S, model, vals) ==
    LET id == (IF model = "owner" THEN S.seq.owner ELSE S.seq.child) + 1
        I == InsertRow(Step(Step(S, "recompute"), "flush"), model, id,
                       IF vals.hasName THEN _parse_values(vals.name) ELSE PyNone, vals.parent_id,
                       IF vals.hasCode THEN _parse_values(vals.code) ELSE PyNone,
                       IF vals.hasDate THEN ParseDatetime(vals.scheduled_date) ELSE PyNone)
        R == refresh(I, model, id)
    IN  Execute(Step(R, "flush"), NoViolation, R.w, R.seq)

\* create from the parsed values to the second flush: the row is added and
\* flushed, read back, its stored computed fields recomputed and flushed.
CreateRow(S, model, vals) ==
    LET id == (IF model = "owner" THEN S.seq.owner ELSE S.seq.child) + 1
        I == InsertRow(Step(S, "flush"), model, id,
                       IF vals.hasName THEN _parse_values(vals.name) ELSE PyNone, vals.parent_id,
                       IF vals.hasCode THEN _parse_values(vals.code) ELSE PyNone,
                       IF vals.hasDate THEN ParseDatetime(vals.scheduled_date) ELSE PyNone)
        R == Step(refresh(I, model, id), "recompute")
    IN  Execute(Step(R, "flush"), NoViolation, R.w, R.seq)

\* create after the relational payloads: audit entry, commit, refresh, and
\* the except clauses.
CreateEnd(S, model, id, user_id) ==
    HandleStorageError(refresh(commit(IF user_id # 0
                                      THEN track_record_creation(Step(S, "audit"), user_id)
                                      ELSE S),
                               model, id))

\* write from the parsed values to the second flush.  A record that was
\* deleted is no longer in the session: nothing is flushed for it and
\* refresh raises.
WriteRow(S, model, id, vals) ==
    LET rows == IF model = "owner" THEN S.w.owners ELSE S.w.children
        F == Step(S, "flush")
        U == IF vals.hasName \/ vals.hasCode \/ vals.hasDate \/ vals.id # 0
             THEN UpdateRow(F, model, id, vals) ELSE F
        R == Step(refresh(U, model, IF vals.id # 0 THEN vals.id ELSE id), "recompute")
    IN  IF \E r \in rows : r.id = id
        THEN Execute(Step(R, "flush"), NoViolation, R.w, R.seq)
        ELSE Raise(F, "InvalidRequestError", <<"is not persistent within this Session">>)

\* write after the relational payloads: the relationship values are read
\* back and the changes tracked, then commit, refresh, and the except
\* clauses.  id is the record's id as the payload left it.
WriteEnd(S, model, id, vals, old_values, user_id) ==
    LET track == user_id # 0 /\ model = "owner"
        A == IF track THEN Step(S, "audit") ELSE S
        loaded == IF track /\ vals.m2m.given THEN Execute(A, NoViolation, A.w, A.seq) ELSE A
        new_values ==
            [keys |-> (IF vals.hasName THEN {"name"} ELSE {})
                      \cup (IF vals.hasCode THEN {"code"} ELSE {})
                      \cup (IF vals.hasDate THEN {"scheduled_date"} ELSE {})
                      \cup (IF vals.m2m.given THEN {"tag_ids"} ELSE {}),
             name |-> vals.name, code |-> vals.code, scheduled_date |-> vals.scheduled_date,
             tag_ids |-> LET ids == RelationshipIds(loaded.w, id).l
                         IN  IF S.reversed
                             THEN PyList([i \in 1..Len(ids) |-> ids[Len(ids) + 1 - i]])
                             ELSE PyList(ids)]
        tracked == IF track
                   THEN track_field_changes(loaded, old_values, new_values, user_id)
                   ELSE loaded
    IN  HandleStorageError(refresh(commit(tracked), model, id))

RECURSIVE O2mCreate(_, _, _)

\* for create_vals in operations['create']: relation_model.create(db, create_vals)
\* (create of the children model, whose payload holds no relational field).
O2mCreate(S, parent_id, names) ==
    IF names = <<>> \/ S.exc # "none" THEN S
    ELSE O2mCreate([CreateEnd(CreateRow(S, "child", Vals(TRUE, Head(names), parent_id, NoO2m, NoM2m)),
                              "child", S.seq.child + 1, 0)
                       EXCEPT !.steps = S.steps],
                   parent_id, Tail(names))

RECURSIVE O2mUpdate(_, _)

\* for update_vals in operations['update']: related_record.write(db, update_vals)
O2mUpdate(S, updates) ==
    IF updates = <<>> \/ S.exc # "none" THEN S
    ELSE LET u == Head(updates)
             vals == Vals(TRUE, u.name, 0, NoO2m, NoM2m)
         IN  O2mUpdate(IF \E c \in S.w.children : c.id = u.id
                       THEN [WriteEnd(WriteRow(S, "child", u.id, vals), "child", u.id, vals,
                                      [name |-> PyNone], 0)
                                EXCEPT !.steps = S.steps]
                       ELSE S,
                       Tail(updates))

\* The children model declares no relational field; the owners model
\* declares the One2many and the Many2many.
_process_relational_fields(S, model, id, vals) ==
    IF S.exc # "none" \/ model # "owner" THEN Step(S, "relational")
    ELSE LET C == O2mCreate(Step(S, "relational"), id, vals.o2m.create)
             U == O2mUpdate(C, vals.o2m.update)
             D == IF vals.o2m.delete # {}
                  THEN Execute(U, NoViolation,
                               [U.w EXCEPT !.children = {c \in @ : c.id \notin vals.o2m.delete}],
                               U.seq)
                  ELSE U
         IN  ProcessMany2many(D, id, vals.m2m)

\* create that leaves the uniqueness of the values to the storage layer.
CreateWithoutPreCheck(S, model, vals, user_id) ==
    LET id == (IF model = "owner" THEN S.seq.owner ELSE S.seq.child) + 1
    IN  CreateEnd(_process_relational_fields(CreateRow(S, model, vals), model, id, vals),
                  model, id, user_id)

\* create: the unique pre-check comes before the try block.
create(S, model, vals, user_id) ==
    LET id == (IF model = "owner" THEN S.seq.owner ELSE S.seq.child) + 1
        code == _parse_values(vals.code)
    IN  IF model = "owner" /\ vals.hasCode /\ code # PyNone
           /\ \E o \in S.w.owners : o.code = code
        THEN Raise(S, "UserError", <<"already exists">>)
        ELSE CreateEnd(_process_relational_fields(CreateRow(S, model, vals), model, id, vals),
                       model, id, user_id)

\* write: the old values of the tracked fields are captured, and the unique
\* pre-check made, before the try block.
write(S, model, id, vals, user_id) ==
    LET rows == IF model = "owner" THEN S.w.owners ELSE S.w.children
        present == \E r \in rows : r.id = id
        self == IF present THEN CHOOSE r \in rows : r.id = id
                ELSE [name |-> PyNone, code |-> PyNone, scheduled_date |-> PyNone]
        old_values == IF model = "owner"
                      THEN [name |-> self.name, code |-> self.code,
                            scheduled_date |-> self.scheduled_date,
                            tag_ids |-> RelationshipIds(S.w, id)]
                      ELSE [name |-> self.name]
        code == _parse_values(vals.code)
        id_after == IF vals.id # 0 THEN vals.id ELSE id
    IN  IF model = "owner" /\ vals.hasCode /\ code # PyNone /\ self.code # code
           /\ \E o \in S.w.owners : o.code = code /\ o.id # id
        THEN Raise(S, "UserError", <<"already exists">>)
        ELSE WriteEnd(_process_relational_fields(WriteRow(S, model, id, vals), model, id_after, vals),
                      model, id_after, vals, old_values, user_id)

\* session.delete(record) for each record, flushed: the ORM first deletes the
\* junction rows of the relationship(secondary=...) the record owns, then
\* the rows themselves.
DeleteFlush(S, model, ids) ==
    LET w1 == IF model = "owner"
              THEN [S.w EXCEPT !.rel = {r \in @ : r[1] \notin ids},
                               !.twice = {r \in @ : r[1] \notin ids}]
              ELSE S.w
        w2 == CASE model = "owner" ->
                     [w1 EXCEPT !.owners = {o \in @ : o.id \notin ids},
                                !.children = {IF c.parent_id \in ids
                                              THEN [c EXCEPT !.parent_id = 0] ELSE c : c \in @}]
                [] model = "child" -> [w1 EXCEPT !.children = {c \in @ : c.id \notin ids}]
                [] model = "target" -> [w1 EXCEPT !.targets = @ \ ids]
        violation ==
            IF ~JunctionKeysHold(w2) THEN StorageError("fk_referenced")
            ELSE IF model = "owner" /\ \E c \in S.w.children : c.parent_id \in ids
                 THEN IF ParentOnDelete # "set null" THEN StorageError("fk_referenced")
                      ELSE IF ParentRequired THEN StorageError("not_null")
                      ELSE NoViolation
            ELSE NoViolation
    IN  Execute(S, violation, w2, S.seq)

unlink(S, model, id) ==
    LET F == commit(DeleteFlush(S, model, {id}))
    IN  IF F.exc = "none" THEN F
        ELSE IF F.exc = "IntegrityError"
             THEN IF Contains(Lower(F.msg), <<"foreign key constraint">>)
                  THEN Raise(rollback(F), "UserError", <<"has related data that depends on it">>)
                  ELSE Raise(rollback(F), "ValidationError", <<"database delete error">>)
        ELSE rollback(F)

\* Recordset.unlink: no except clause; the failed flush leaves nothing
\* committed.
Recordset_unlink(S, model, ids) ==
    LET F == commit(DeleteFlush(S, model, ids))
    IN  IF F.exc = "none" THEN F ELSE [F EXCEPT !.w = F.c, !.aborted = FALSE]

(***************************************************************************)
(* Inputs of the domain-rule operations                                    *)
(***************************************************************************)
Crit(field, op, value) == [len |-> 3, field |-> field, op |-> op, value |-> value]

\* Criteria a role's domain may be declared with and a query can be built
\* from; the last is no 3-tuple.
FilterCriteria ==
    { Crit("performed_by_id", "=", PyStr(<<"user", ".", "id">>)),
      Crit("performed_by_id", "=", PyStr(<<"user", ".", "phone">>)),
      Crit("performed_by_id", "=", PyStr(<<"user", ".", "partner_id", ".", "id">>)),
      Crit("name", "=", PyStr(<<"user", ".", "role", ".", "name">>)),
      Crit("id", "!=", PyInt(1)),
      Crit("priority", "<", PyInt(2)),
      Crit("priority", ">", PyInt(0)),
      Crit("priority", "<=", PyInt(1)),
      Crit("priority", ">=", PyInt(1)),
      Crit("id", "in", PyList(<<1, 2>>)),
      Crit("id", "not in", PyList(<<1, 2>>)),
      Crit("name", "like", PyStr(<<"a", "%">>)),
      Crit("name", "ilike", PyStr(<<"a">>)),
      [len |-> 2, field |-> "id", op |-> "=", value |-> PyNone] }

MaxDomainLen == 2

DomainsOver(criteria) == UNION {[1..k -> criteria] : k \in 0..MaxDomainLen}

DomainUsers ==
    {u \in Users : ~u.present \/ ~u.hasRole \/ u.role \in {"admin", "dispatcher", "user"}}

DomainModels == {"activity", "audit.log", "ghost.model"}

IdlePol ==
    [op |-> "idle", user |-> NoUser, model |-> "", action |-> "", context |-> NoContext,
     declared |-> <<>>, result |-> FALSE, resolved |-> <<>>, rows |-> {}]

IdleEng == [op |-> "idle"]

(***************************************************************************)
(* Policy engine calls                                                     *)
(***************************************************************************)
CanAccess ==
    /\ pol.op = "idle"
    /\ \E user \in Users, model_name \in ModelNames, action \in Actions, context \in Contexts :
          pol' = [IdlePol EXCEPT !.op = "can_access", !.user = user, !.model = model_name,
                                 !.action = action, !.context = context,
                                 !.result = can_access_record(user, model_name, action, context)]
    /\ UNCHANGED <<eng, db, res, fleet, reg, ser>>

GetDomainFilter ==
    /\ pol.op = "idle"
    /\ \E user \in DomainUsers, model_name \in DomainModels, declared \in DomainsOver(FilterCriteria
                    \cup {Crit("name", "=", PyStr(<<"user", ".", "role">>))}) :
          pol' = [IdlePol EXCEPT !.op = "get_domain_filter", !.user = user, !.model = model_name,
                                 !.declared = declared,
                                 !.resolved = get_domain_filter(user, model_name, declared)]
    /\ UNCHANGED <<eng, db, res, fleet, reg, ser>>

ApplyDomainFilter ==
    /\ pol.op = "idle"
    /\ \E user \in DomainUsers, model_name \in DomainModels, declared \in DomainsOver(FilterCriteria) :
          pol' = [IdlePol EXCEPT !.op = "apply_domain_filter", !.user = user, !.model = model_name,
                                 !.declared = declared,
                                 !.resolved = get_domain_filter(user, model_name, declared),
                                 !.rows = apply_domain_filter(TableRows, user, model_name, declared)]
    /\ UNCHANGED <<eng, db, res, fleet, reg, ser>>

\* The caller takes the result; the engine keeps nothing between calls.
PolicyReturn ==
    /\ pol.op # "idle"
    /\ pol' = IdlePol
    /\ UNCHANGED <<eng, db, res, fleet, reg, ser>>

(***************************************************************************)
(* Fleet tables, model registry and serializer at start                    *)
(***************************************************************************)
MaxTripId == 2

MaxRecordId == 2

MaxDay == 3

MaxDepth == 2

\* Trips are created in status 'draft' (trip.py line 32) on a vehicle that
\* is 'available' with a driver who is 'off_duty'; req is the last request
\* the API served (none yet).
InitialFleet ==
    [trips   |-> [t \in 1..MaxTripId |->
                    [exists |-> TRUE, status |-> "draft", vehicle_id |-> 1,
                     driver_id |-> 1, cargo_weight |-> 500]],
     vehicle |-> [v \in {1} |-> [status |-> "available", max_capacity |-> 1000]],
     driver  |-> [d \in {1} |-> [status |-> "off_duty", license_expired |-> FALSE]],
     req     |-> [user |-> NoUser, endpoint |-> "", method |-> "", outcome |-> ""]]

\* ModelRegistry._models is empty until a class statement runs.  classes
\* holds every class object that exists (BaseModel itself: __abstract__ is
\* True, no __tablename__, no _model_name_); calls is the history of
\* register(name, cls) calls.
EmptyRegistry ==
    [classes |-> [c \in {"BaseModel"} |->
                    [abstract |-> TRUE, tablename |-> "None", model_name |-> ""]],
     models  |-> [n \in {} |-> ""],
     calls   |-> {}]

\* Rows of a model with a date column (license_expiry, 0 for NULL) and a
\* many-to-one parent_id whose inverse is the one-to-many child_ids; today
\* is datetime.now().date(); last and prev are the two latest to_dict()
\* results on record (id 0: none since the last write).
InitialSer ==
    [today   |-> 1,
     records |-> [r \in 1..MaxRecordId |-> [license_expiry |-> 2, parent_id |-> 0]],
     last    |-> [id |-> 0, max_depth |-> 0, out |-> << >>],
     prev    |-> [id |-> 0, max_depth |-> 0, out |-> << >>]]

Init ==
    /\ pol = IdlePol
    /\ eng = IdleEng
    /\ db = EmptyDb
    /\ res = IdleRes
    /\ fleet = InitialFleet
    /\ reg = EmptyRegistry
    /\ ser = InitialSer

NextPolicy == CanAccess \/ GetDomainFilter \/ ApplyDomainFilter \/ PolicyReturn

SpecPolicy == Init /\ [][NextPolicy]_vars


(***************************************************************************)
(* Claims on the policy engine                                             *)
(***************************************************************************)
\* What a model's declared permission map grants a user for an action:
\* the user's role is admin, or the map has an entry for the role whose
\* flag for the action is true.
DeclaredAllows(user, model_name, action) ==
    /\ user.present
    /\ user.hasRole
    /\ \/ user.role = "admin"
       \/ /\ model_name \in RegisteredModels
          /\ user.role \in DOMAIN RolePermissions(model_name)
          /\ RolePermissions(model_name)[user.role][action]

RelationResolutionCall ==
    pol.action = "read" /\ pol.context.given /\ pol.context.flag

\* C4: outside the relation-resolution carve-out, can_access is true exactly
\* when the user's role is admin or the model's permission map has an entry
\* for the role whose flag for the action is true; a missing entry yields
\* false (dispatcher write on fleet.vehicle is false, fleet_manager true).
C4_CanAccessIsDeclaredPermission ==
    (pol.op = "can_access" /\ ~RelationResolutionCall)
        => (pol.result = DeclaredAllows(pol.user, pol.model, pol.action))

C4_Witness ==
    /\ pol.op = "can_access"
    /\ ~pol.context.given
    /\ pol.user.role = "dispatcher"
    /\ pol.model = "fleet.vehicle"
    /\ pol.action = "write"
    /\ pol.result = FALSE

\* C5: access beyond the role's declared permissions is granted only for
\* action read, only on a call flagged as relation resolution, and only when
\* the user can read the parent model.
C5_CarveOutIsScoped ==
    (pol.op = "can_access" /\ pol.result /\ ~DeclaredAllows(pol.user, pol.model, pol.action))
        => /\ pol.action = "read"
           /\ pol.context.given
           /\ pol.context.flag
           /\ DeclaredAllows(pol.user, pol.context.parent, "read")

C5_Witness ==
    /\ pol.op = "can_access"
    /\ pol.result
    /\ ~DeclaredAllows(pol.user, pol.model, pol.action)
    /\ pol.user.role = "dispatcher"
    /\ pol.model = "fleet.expense"
    /\ pol.context.parent = "fleet.trip"

\* C6: for a non-admin role whose entry declares a domain, every row the
\* filtered query returns satisfies every criterion of the resolved domain.
C6_FilteredRowsSatisfyDomain ==
    (pol.op = "apply_domain_filter" /\ pol.user.hasRole /\ pol.user.role # "admin")
        => \A row \in pol.rows :
              \A i \in 1..Len(pol.resolved) : RowSatisfies(row, pol.resolved[i])

\* A value that reads as a user.* path.
ReadsAsUserPath(value) ==
    value.t = "str" /\ Len(value.s) >= 2 /\ value.s[1] = "user" /\ value.s[2] = "."

\* What a user.* path stands for, None when it stands for nothing.
UserPathValue(toks, user) ==
    CASE toks = <<"user", ".", "id">> -> PyInt(user.id)
      [] toks = <<"user", ".", "role">> -> PyObj("role")
      [] toks = <<"user", ".", "role", ".", "name">> -> PyStr(<<user.role>>)
      [] OTHER -> PyNone

\* The declared criteria that stay: well-formed, and resolvable if a reference.
StayingIndexes(declared, user) ==
    {i \in 1..Len(declared) :
        /\ declared[i].len = 3
        /\ ReadsAsUserPath(declared[i].value)
              => UserPathValue(declared[i].value.s, user).t # "none"}

\* The criterion declared[i] stands for once resolved.
ResolvedCriterion(c, user) ==
    IF ReadsAsUserPath(c.value)
    THEN [c EXCEPT !.value = UserPathValue(c.value.s, user)]
    ELSE c

HasDomainEntry(user, model_name) ==
    /\ user.present
    /\ user.hasRole
    /\ model_name \in RegisteredModels
    /\ user.role \in DOMAIN RolePermissions(model_name)

\* C7: domain_filter returns the role's domain, in order, with every
\* resolvable user.* reference replaced by its value and every criterion
\* whose reference cannot be resolved removed; no returned criterion carries
\* a raw user.* string as its value.
C7_DomainFilterResolvesOrDrops ==
    (pol.op = "get_domain_filter" /\ HasDomainEntry(pol.user, pol.model))
        => LET keep == StayingIndexes(pol.declared, pol.user)
           IN  /\ Len(pol.resolved) = Cardinality(keep)
               /\ \A i \in keep :
                     pol.resolved[Cardinality({j \in keep : j <= i})]
                        = ResolvedCriterion(pol.declared[i], pol.user)
               /\ \A k \in 1..Len(pol.resolved) : ~ReadsAsUserPath(pol.resolved[k].value)

C7_Witness ==
    /\ pol.op = "get_domain_filter"
    /\ HasDomainEntry(pol.user, pol.model)
    /\ Len(pol.declared) = 2
    /\ pol.declared[1].value = PyStr(<<"user", ".", "phone">>)
    /\ pol.declared[2].value = PyStr(<<"user", ".", "id">>)
    /\ pol.resolved = <<[pol.declared[2] EXCEPT !.value = PyInt(pol.user.id)]>>

(***************************************************************************)
(* Inputs of the domain expression engine                                  *)
(***************************************************************************)
Cond(field, op, value) ==
    [arity |-> 3, fieldIsStr |-> TRUE, field |-> field, op |-> op, value |-> value]

\* Expression texts: blank, unreadable, and lists of condition tuples, of
\* groups joined by '|' or '&', with a dangling operator, with a 2-tuple,
\* with an unknown operator, a field that is no str, a str that is no
\* logical operator, or an int in place of a condition.
Expressions ==
    LET NoCond == [arity |-> 0, fieldIsStr |-> FALSE, field |-> <<>>, op |-> "", value |-> PyNone]
        Tuple(c) == [k |-> "tuple", c |-> c, g |-> <<>>, v |-> ""]
        List(g) == [k |-> "list", c |-> NoCond, g |-> g, v |-> ""]
        Str(v) == [k |-> "str", c |-> NoCond, g |-> <<>>, v |-> v]
        Text(items) == [kind |-> "list", items |-> items]
        UserRoleIsAdmin == Cond(<<"user", ".", "role", ".", "name">>, "=", PyStr(<<"admin">>))
        UserRoleIsNotAdmin == Cond(<<"user", ".", "role", ".", "name">>, "!=", PyStr(<<"admin">>))
        UserIdIsOne == Cond(<<"user", ".", "id">>, "=", PyInt(1))
        StatusIsDraft == Cond(<<"status">>, "=", PyStr(<<"draft">>))
        StatusLikeD == Cond(<<"status">>, "like", PyStr(<<"d", "%">>))
        StatusLikeParen == Cond(<<"status">>, "like", PyStr(<<"(", "%">>))
        StatusIlikeParen == Cond(<<"status">>, "ilike", PyStr(<<"%", "(">>))
        RefIsFalse == Cond(<<"ref">>, "=", PyBool(FALSE))
        AmountOver100 == Cond(<<"amount">>, ">", PyInt(100))
        Other == [k |-> "other", c |-> NoCond, g |-> <<>>, v |-> ""]
    IN  { [kind |-> "blank", items |-> <<>>], [kind |-> "invalid", items |-> <<>>],
          Text(<<Tuple(UserRoleIsAdmin)>>),
          Text(<<Tuple(UserRoleIsNotAdmin)>>),
          Text(<<Tuple(UserIdIsOne)>>),
          Text(<<Tuple(StatusIsDraft)>>),
          Text(<<Tuple(StatusIsDraft), Tuple(UserRoleIsAdmin)>>),
          Text(<<List(<<StatusIsDraft>>), Str("|"), List(<<UserRoleIsAdmin>>)>>),
          Text(<<List(<<StatusIsDraft>>), Str("&"), List(<<UserIdIsOne>>)>>),
          Text(<<Tuple(RefIsFalse)>>),
          Text(<<Tuple(StatusLikeD)>>),
          Text(<<Tuple(StatusLikeParen)>>),
          Text(<<Tuple(StatusLikeParen), Tuple(StatusIsDraft)>>),
          Text(<<List(<<StatusIlikeParen>>), Str("|"), List(<<StatusIsDraft>>)>>),
          Text(<<List(<<StatusIsDraft>>), Str("&"), List(<<StatusLikeParen, StatusIsDraft>>)>>),
          Text(<<Tuple(StatusIsDraft), Tuple(AmountOver100)>>),
          Text(<<List(<<StatusIsDraft>>), Str("|"), List(<<AmountOver100>>), Str("&"),
                 List(<<RefIsFalse>>)>>),
          Text(<<List(<<RefIsFalse>>), Str("&"), List(<<AmountOver100>>), Str("|"),
                 Tuple(StatusIsDraft)>>),
          Text(<<Tuple([StatusIsDraft EXCEPT !.op = "=="])>>),
          Text(<<Tuple([StatusIsDraft EXCEPT !.fieldIsStr = FALSE])>>),
          Text(<<List(<<StatusIsDraft>>), Str("x"), List(<<AmountOver100>>)>>),
          Text(<<List(<<StatusIsDraft, [AmountOver100 EXCEPT !.arity = 2]>>)>>),
          Text(<<Tuple(StatusIsDraft), Other>>),
          Text(<<Tuple(UserRoleIsAdmin), Str("|")>>),
          Text(<<Tuple([UserRoleIsAdmin EXCEPT !.arity = 2])>>) }

\* User contexts: None, the empty mapping, two that the token verification
\* produced, and ones missing the tag, carrying another tag, missing id,
\* email or role, or with a role that is a str or a mapping without a name.
UserContexts ==
    LET JwtKeys == {"_source", "id", "email", "role"}
        Jwt(role) == UserMap(TRUE, JwtKeys, "jwt", 1, TRUE, {"name"}, role)
    IN  { NoUserMap, UserMap(TRUE, {}, "", 0, FALSE, {}, ""), Jwt("admin"), Jwt("dispatcher"),
          [Jwt("admin") EXCEPT !.keys = JwtKeys \ {"_source"}],
          [Jwt("admin") EXCEPT !.source = "localStorage"],
          [Jwt("admin") EXCEPT !.keys = JwtKeys \ {"id"}],
          [Jwt("admin") EXCEPT !.keys = JwtKeys \ {"email"}],
          [Jwt("admin") EXCEPT !.keys = JwtKeys \ {"role"}],
          [Jwt("admin") EXCEPT !.roleIsDict = FALSE],
          [Jwt("admin") EXCEPT !.roleKeys = {}] }

\* Record contexts (form data): a status, an amount, a value under `ref`,
\* and possibly a key 'user' of the record's own.  `ref` holds None, '', [],
\* {}, 0, False, a many-to-one mapping whose id is 0, None or 5, or a
\* non-empty str, list, int or mapping without id.
RecordContexts ==
    LET Dict(keys, id) == [t |-> "dict", n |-> id, s |-> keys, l |-> <<>>]
        RefValues ==
            { PyNone, PyStr(<<>>), PyList(<<>>), Dict(<<>>, 0), PyInt(0), PyBool(FALSE),
              Dict(<<"id", "int">>, 0), Dict(<<"id", "none">>, 0), Dict(<<"id", "int">>, 5),
              PyStr(<<"a">>), PyList(<<1>>), PyInt(5), Dict(<<"name">>, 0) }
    IN  { [fields |-> [status |-> PyStr(<<st>>), amount |-> PyInt(amount), ref |-> ref],
           user |-> um] :
            st \in {"draft", "done"}, amount \in {50, 150}, ref \in RefValues,
            um \in {NoUserMap, UserMap(TRUE, {"id", "role"}, "", 1, TRUE, {"name"}, "admin")} }

(***************************************************************************)
(* Domain engine calls                                                     *)
(***************************************************************************)
Evaluate ==
    /\ eng.op = "idle"
    /\ \E expression \in Expressions, context \in RecordContexts, user_context \in UserContexts :
          eng' = [op |-> "evaluate", expression |-> expression, context |-> context,
                  default |-> FALSE, user_context |-> user_context,
                  result |-> evaluate(expression, context, user_context)]
    /\ UNCHANGED <<pol, db, res, fleet, reg, ser>>

SafeEvaluate ==
    /\ eng.op = "idle"
    /\ \E expression \in Expressions, context \in RecordContexts, default \in BOOLEAN,
          user_context \in UserContexts :
          eng' = [op |-> "safe_evaluate", expression |-> expression, context |-> context,
                  default |-> default, user_context |-> user_context,
                  result |-> safe_evaluate(expression, context, default, user_context)]
    /\ UNCHANGED <<pol, db, res, fleet, reg, ser>>

\* parse_expression called on its own: the syntax tree, or DomainParseError.
ParseExpression ==
    /\ eng.op = "idle"
    /\ \E expression \in Expressions :
          eng' = [op |-> "parse_expression", expression |-> expression,
                  context |-> CHOOSE c \in RecordContexts : TRUE, default |-> FALSE,
                  user_context |-> NoUserMap,
                  result |-> IF parse_expression(expression).ok THEN Value(TRUE)
                             ELSE Raised("DomainParseError")]
    /\ UNCHANGED <<pol, db, res, fleet, reg, ser>>

\* The caller takes the result; the engine keeps nothing between calls.
EngineReturn ==
    /\ eng.op # "idle"
    /\ eng' = IdleEng
    /\ UNCHANGED <<pol, db, res, fleet, reg, ser>>

NextDomain == Evaluate \/ SafeEvaluate \/ ParseExpression \/ EngineReturn

SpecDomain == Init /\ [][NextDomain]_vars

(***************************************************************************)
(* Claims on the domain expression engine                                  *)
(***************************************************************************)
ConditionsOf(expression) ==
    UNION { IF expression.items[i].k = "tuple" THEN {expression.items[i].c}
            ELSE IF expression.items[i].k = "list" THEN SeqToSet(expression.items[i].g)
            ELSE {} : i \in 1..Len(expression.items) }

\* The expression names user.* in one of its conditions.
ReferencesUser(expression) ==
    \E c \in ConditionsOf(expression) : Len(c.field) >= 2 /\ c.field[1] = "user" /\ c.field[2] = "."

\* A mapping was passed (not None) and it does not carry the provenance tag.
LacksProvenanceTag(user_context) ==
    user_context.given /\ ~("_source" \in user_context.keys /\ user_context.source = "jwt")

\* A mapping was passed and it misses the tag, id, email, or a role mapping
\* with a name.
MustBeRefused(user_context) ==
    /\ user_context.given
    /\ \/ LacksProvenanceTag(user_context)
       \/ "id" \notin user_context.keys
       \/ "email" \notin user_context.keys
       \/ ~("role" \in user_context.keys /\ user_context.roleIsDict
            /\ "name" \in user_context.roleKeys)

\* C2: safe_evaluate of an expression that references user.*, called with a
\* user context that lacks the provenance tag (the empty mapping included),
\* returns the caller's default.
C2_UntaggedContextYieldsDefault ==
    (eng.op = "safe_evaluate" /\ ReferencesUser(eng.expression)
        /\ LacksProvenanceTag(eng.user_context))
    => eng.result = Value(eng.default)

\* C3: evaluate, handed a user context that misses the provenance tag, a
\* required identity field or a role mapping carrying a name, fails with an
\* evaluation error and returns no boolean.
C3_EvaluateRefusesUnverifiedContext ==
    (eng.op = "evaluate" /\ MustBeRefused(eng.user_context))
    => eng.result.outcome = "DomainEvaluationError"

(***************************************************************************)
(* Record runtime: requests                                                *)
(***************************************************************************)
TooLongName == PyStr([i \in 1..(NameSize + 1) |-> "x"])

ChildNames == {PyStr(<<"a">>), PyStr(<<>>), TooLongName}

\* Payloads for the owners model: a name alone (two that fit, the empty
\* string, one too long for the column), or a name that fits with a
\* value for the One2many field, for the Many2many field, or for both.
OwnerPayloads ==
    LET O2m == { [NoO2m EXCEPT !.create = <<PyStr(<<"a">>)>>],
                 [NoO2m EXCEPT !.create = <<PyStr(<<"a">>), TooLongName>>],
                 [NoO2m EXCEPT !.create = <<PyStr(<<"a">>), PyStr(<<>>)>>],
                 [NoO2m EXCEPT !.update = <<[id |-> 1, name |-> PyStr(<<"a">>)],
                                            [id |-> 2, name |-> TooLongName]>>],
                 [NoO2m EXCEPT !.delete = {1}] }
        M2m == { [NoM2m EXCEPT !.given = TRUE, !.isList = TRUE, !.list = l] :
                   l \in {<<>>, <<1>>, <<3>>, <<1, 1>>} }
               \cup { [NoM2m EXCEPT !.given = TRUE, !.hasAdd = TRUE, !.add = a] :
                        a \in {<<1>>, <<3>>} }
               \cup { [NoM2m EXCEPT !.given = TRUE, !.remove = {1}] }
    IN  { Vals(TRUE, name, 0, NoO2m, NoM2m) :
            name \in {PyStr(<<"a">>), PyStr(<<"b">>), PyStr(<<>>), TooLongName} }
        \cup { Vals(TRUE, PyStr(<<"b">>), 0, o2m, NoM2m) : o2m \in O2m }
        \cup { Vals(TRUE, PyStr(<<"b">>), 0, NoO2m, m2m) : m2m \in M2m }
        \cup { Vals(TRUE, PyStr(<<"b">>), 0, [NoO2m EXCEPT !.create = <<PyStr(<<"a">>)>>], m2m) :
                 m2m \in M2m }

Ids(model) ==
    CASE model = "owner" -> {o.id : o \in db.c.owners}
      [] model = "child" -> {c.id : c \in db.c.children}
      [] model = "target" -> db.c.targets

\* The request ends: what the session committed is the new storage state.
\* request is what the caller passed, kept when the response is examined
\* against it, with the rows the record's table held when the call began.
Respond(op, model, ids, S, request) ==
    /\ db' = [c |-> S.c, seq |-> S.seq]
    /\ res' = [op |-> op, model |-> model, ids |-> ids,
               outcome |-> IF S.exc = "none" THEN "ok" ELSE S.exc,
               msg |-> IF S.exc = "none" \/ ~request.given THEN <<>> ELSE S.msg,
               violated |-> S.violated,
               changed |-> S.c # db.c,
               referenced |-> model = "owner" /\ \E c \in db.c.children : c.parent_id \in ids,
               linked |-> \E r \in db.c.rel : (model = "owner" /\ r[1] \in ids)
                                                \/ (model = "target" /\ r[2] \in ids),
               steps |-> IF request.given THEN S.steps ELSE <<>>,
               entries |-> IF request.given THEN S.entries ELSE <<>>,
               request |-> request,
               before |-> IF request.given THEN [owners |-> db.c.owners, rel |-> db.c.rel]
                          ELSE [owners |-> {}, rel |-> {}]]
    /\ UNCHANGED <<pol, eng, fleet, reg, ser>>

\* A request whose payload is not kept with the response.
NoRequest == [given |-> FALSE]

CreateOwner ==
    /\ res.op = "idle"
    /\ db.seq.owner < MaxOwnerId
    /\ \E vals \in OwnerPayloads, user_id \in {0, 1} :
          /\ db.seq.child + Len(vals.o2m.create) <= MaxChildId
          /\ user_id # 0 => db.c.audit < MaxAudit
          /\ Respond("create", "owner", {db.seq.owner + 1},
                     create(Session(db.c, db.seq), "owner", vals, user_id), NoRequest)

CreateChild ==
    /\ res.op = "idle"
    /\ db.seq.child < MaxChildId
    /\ \E name \in ChildNames, parent_id \in 0..MaxOwnerId :
          Respond("create", "child", {db.seq.child + 1},
                  create(Session(db.c, db.seq), "child", Vals(TRUE, name, parent_id, NoO2m, NoM2m),
                         0), NoRequest)

\* A write payload may leave `name` out; these writes are made without a
\* user id.
WriteOwner ==
    /\ res.op = "idle"
    /\ \E id \in Ids("owner"), vals \in OwnerPayloads, hasName \in BOOLEAN :
          /\ db.seq.child + Len(vals.o2m.create) <= MaxChildId
          /\ Respond("write", "owner", {id},
                     write(Session(db.c, db.seq), "owner", id, [vals EXCEPT !.hasName = hasName],
                           0), NoRequest)

WriteChild ==
    /\ res.op = "idle"
    /\ \E id \in Ids("child"), name \in ChildNames :
          Respond("write", "child", {id},
                  write(Session(db.c, db.seq), "child", id, Vals(TRUE, name, 0, NoO2m, NoM2m), 0),
                  NoRequest)

Unlink ==
    /\ res.op = "idle"
    /\ \E model \in {"owner", "child", "target"} : \E id \in Ids(model) :
          Respond("unlink", model, {id}, unlink(Session(db.c, db.seq), model, id), NoRequest)

RecordsetUnlink ==
    /\ res.op = "idle"
    /\ \E model \in {"owner", "child", "target"} : \E ids \in SUBSET Ids(model) :
          /\ ids # {}
          /\ Respond("recordset_unlink", model, ids,
                     Recordset_unlink(Session(db.c, db.seq), model, ids), NoRequest)

\* The response is delivered; the next request may begin.
CrudReturn ==
    /\ res.op # "idle"
    /\ res' = IdleRes
    /\ UNCHANGED <<pol, eng, db, fleet, reg, ser>>

NextCrud ==
    \/ CreateOwner
    \/ CreateChild
    \/ WriteOwner
    \/ WriteChild
    \/ Unlink
    \/ RecordsetUnlink
    \/ CrudReturn

SpecCrud == Init /\ [][NextCrud]_vars

(***************************************************************************)
(* Record runtime: requests on one model, examined with their payloads     *)
(***************************************************************************)
\* The user ids a caller passes for audit tracking: none (0), a user that
\* exists, an id no user has.
UserIds == {0, 1, 9}

\* Payloads for the owners model without One2many values: a name, a code
\* (one is the empty string), a datetime (with and without the suffix "Z")
\* and a list for the Many2many field (one names a target that does not
\* exist), alone and together; and payloads that name `id`.
RecordPayloads ==
    LET base == Vals(FALSE, PyNone, 0, NoO2m, NoM2m)
        named == [base EXCEPT !.hasName = TRUE, !.name = PyStr(<<"b">>)]
        Coded(v, c) == [v EXCEPT !.hasCode = TRUE, !.code = PyStr(c)]
        Dated(v, d) == [v EXCEPT !.hasDate = TRUE, !.scheduled_date = PyStr(d)]
        Tagged(v, l) == [v EXCEPT !.m2m = [NoM2m EXCEPT !.given = TRUE, !.isList = TRUE,
                                                         !.list = l]]
    IN  {base, named}
        \cup {Coded(base, c) : c \in {<<"k">>, <<>>}}
        \cup {Dated(base, d) : d \in {<<"2024-01-01T10:00:00">>, <<"2024-01-01T10:00:00", "Z">>}}
        \cup {Tagged(base, l) : l \in {<<1, 2>>, <<2, 1>>, <<3>>}}
        \cup {Coded(named, <<"k">>), Dated(named, <<"2024-01-01T10:00:00", "Z">>),
              Tagged(named, <<1, 2>>), Tagged(Coded(named, <<"k">>), <<2, 1>>)}
        \cup {[base EXCEPT !.id = i] : i \in {1, MaxOwnerId + 1}}
        \cup {[named EXCEPT !.id = MaxOwnerId + 1]}

RecordCreate ==
    /\ res.op = "idle"
    /\ db.seq.owner < MaxOwnerId
    /\ \E vals \in {v \in RecordPayloads : v.id = 0}, user_id \in UserIds :
          /\ user_id # 0 => db.c.audit < MaxAudit
          /\ Respond("create", "owner", {db.seq.owner + 1},
                     create(Session(db.c, db.seq), "owner", vals, user_id),
                     [given |-> TRUE, vals |-> vals, user_id |-> user_id])

\* write on a record of the table, or on a record that was deleted (or whose
\* create was rolled back) and that the caller still holds.
RecordWrite ==
    /\ res.op = "idle"
    /\ \E id \in Ids("owner") \cup 1..db.seq.owner, vals \in RecordPayloads, user_id \in UserIds,
          reversed \in BOOLEAN :
          /\ user_id # 0 => db.c.audit < MaxAudit
          /\ Respond("write", "owner", {id},
                     write([Session(db.c, db.seq) EXCEPT !.reversed = reversed], "owner", id,
                           vals, user_id),
                     [given |-> TRUE, vals |-> vals, user_id |-> user_id])

RecordUnlink ==
    /\ res.op = "idle"
    /\ \E id \in Ids("owner") :
          Respond("unlink", "owner", {id}, unlink(Session(db.c, db.seq), "owner", id),
                  [given |-> TRUE, vals |-> Vals(FALSE, PyNone, 0, NoO2m, NoM2m), user_id |-> 0])

NextRecord == RecordCreate \/ RecordWrite \/ RecordUnlink \/ CrudReturn

\* The application starts with two rows in the targets table.
InitRecord ==
    /\ pol = IdlePol
    /\ eng = IdleEng
    /\ res = IdleRes
    /\ db = [EmptyDb EXCEPT !.c.targets = {1, 2}]
    /\ fleet = InitialFleet
    /\ reg = EmptyRegistry
    /\ ser = InitialSer

SpecRecord == InitRecord /\ [][NextRecord]_vars

(***************************************************************************)
(* Claims on the record runtime                                            *)
(***************************************************************************)
\* C1: a create or a write that fails partway leaves no effect of the
\* operation committed: the committed rows are those from before the call.
C1_FailedOperationLeavesNothing ==
    (res.op \in {"create", "write"} /\ res.outcome # "ok") => ~res.changed

\* The taxonomy error a broken constraint is to surface as.
TaxonomyError(kind) ==
    IF kind \in {"unique", "fk_insert", "fk_referenced"} THEN "UserError" ELSE "ValidationError"

\* C8: create and write raise nothing but taxonomy errors, and a constraint
\* the storage layer reported broken surfaces as the error of its kind.
C8_ViolationsSurfaceAsTaxonomyErrors ==
    res.op \in {"create", "write"}
    => /\ res.outcome \in {"ok", "UserError", "ValidationError"}
       /\ res.violated # "none" => res.outcome = TaxonomyError(res.violated)

\* C9: unlink of a record that a child's required parent_id still names
\* raises UserError and leaves the rows as they were, on a single record and
\* on a Recordset.
C9_DeleteOfReferencedRecordIsUserError ==
    (res.op \in {"unlink", "recordset_unlink"} /\ res.referenced)
    => (res.outcome = "UserError" /\ ~res.changed)

\* C10: after an unlink that succeeded, no junction row names a deleted
\* record, on either side of the relation.
C10_NoJunctionRowAfterUnlink ==
    (res.op \in {"unlink", "recordset_unlink"} /\ res.outcome = "ok")
    => \A r \in db.c.rel : /\ ~(res.model = "owner" /\ r[1] \in res.ids)
                           /\ ~(res.model = "target" /\ r[2] \in res.ids)

\* An owner that had junction rows was unlinked, and the unlink succeeded.
C10_Witness ==
    /\ res.op \in {"unlink", "recordset_unlink"}
    /\ res.outcome = "ok"
    /\ res.model = "owner"
    /\ res.linked

(***************************************************************************)
(* Claims on the record lifecycle, identity and audit trail                *)
(***************************************************************************)
\* C11: a record moves only along new -> persisted -> (written)* -> deleted.
\* A row comes into a table only through a create, under an id that no
\* record held before; a create or a write that succeeds leaves its record
\* stored under its id, an unlink that succeeds leaves it absent, and an id
\* that was given up is never stored again.
C11_RecordLifecycle ==
    [][ /\ \A o \in db'.c.owners :
              \/ \E p \in db.c.owners : p.id = o.id
              \/ res'.op = "create" /\ o.id > db.seq.owner
        /\ (res'.op \in {"create", "write"} /\ res'.outcome = "ok")
              => \A id \in res'.ids : \E o \in db'.c.owners : o.id = id
        /\ (res'.op = "unlink" /\ res'.outcome = "ok")
              => \A id \in res'.ids : ~\E o \in db'.c.owners : o.id = id
      ]_vars

\* The steps of a create or a write in the order the contract gives them;
\* the audit step is there when the caller named a user.
StepOrder(audited) ==
    <<"flush", "recompute", "flush", "relational">>
    \o (IF audited THEN <<"audit">> ELSE <<>>) \o <<"commit">>

\* C12: create and write go through their steps in one order: flush,
\* recompute of the stored computed fields, flush, relational sub-payloads,
\* audit entry, commit.  The steps an operation began are the first steps of
\* that order, and an operation that succeeded went through all of them.
C12_StepsInOrder ==
    (res.op \in {"create", "write"} /\ res.request.given)
    => LET order == StepOrder(res.request.user_id # 0)
       IN  /\ Len(res.steps) <= Len(order)
           /\ res.steps = SubSeq(order, 1, Len(res.steps))
           /\ res.outcome = "ok" => res.steps = order

\* A write with a Many2many list, made for a user, that changed the record
\* and went through all six steps.
C12_Witness ==
    /\ res.op = "write"
    /\ res.outcome = "ok"
    /\ res.request.given
    /\ res.request.vals.m2m.given
    /\ res.changed
    /\ res.steps = <<"flush", "recompute", "flush", "relational", "audit", "commit">>

\* C13: a create whose value for the unique column `code` equals the code
\* of a stored record raises UserError ('already exists') before any insert
\* is attempted (no step of the create has begun), and nothing is persisted:
\* the rows are those from before and no record holds the id.
C13_DuplicateRefusedBeforeInsert ==
    (res.op = "create" /\ res.request.given /\ res.request.vals.hasCode
        /\ \E o \in res.before.owners : o.code = res.request.vals.code)
    => /\ res.outcome = "UserError"
       /\ res.msg = <<"already exists">>
       /\ res.steps = <<>>
       /\ ~res.changed
       /\ \A id \in res.ids : ~\E o \in db.c.owners : o.id = id

\* A second create with the code of a stored record was refused.
C13_Witness ==
    /\ res.op = "create"
    /\ res.request.given
    /\ res.request.vals.hasCode
    /\ \E o \in res.before.owners : o.code = res.request.vals.code
    /\ res.outcome = "UserError"
    /\ db.c.owners # {}

\* C14: the id of a record is generated at creation and never changes: after
\* a write, whatever its payload (one naming `id` included), the records
\* are stored under the ids they were stored under before it.
C14_WriteKeepsIds ==
    (res.op = "write" /\ res.request.given)
    => {o.id : o \in db.c.owners} = {o.id : o \in res.before.owners}

\* The record a write was made on, as it was stored when the write began.
WrittenRecord == CHOOSE o \in res.before.owners : o.id \in res.ids

\* The payload of the last write gives, for each tracked field it names, a
\* value that normalizes to the record's current value: a Char value to the
\* same display string (None and '' are both shown as ''), an ISO datetime
\* string to the date and time the record holds, a Many2many list to the
\* same set of ids.
WritesCurrentValues ==
    LET vals == res.request.vals
        Shown(v) == IF v = PyNone THEN <<>> ELSE v.s
        linked == {r[2] : r \in {x \in res.before.rel : x[1] \in res.ids}}
    IN  /\ vals.hasName => Shown(vals.name) = Shown(WrittenRecord.name)
        /\ vals.hasCode => Shown(vals.code) = Shown(WrittenRecord.code)
        /\ vals.hasDate => /\ WrittenRecord.scheduled_date # PyNone
                           /\ ClockOf(vals.scheduled_date.s[1]) = WrittenRecord.scheduled_date.n
        /\ vals.m2m.given => SeqToSet(vals.m2m.list) = linked

\* C15: a write whose values for the tracked fields equal, after
\* normalization, the current values of the record produces no audit entry.
C15_NoOpWriteLeavesNoAuditEntry ==
    (res.op = "write" /\ res.request.given /\ res.request.user_id # 0
        /\ (\E o \in res.before.owners : o.id \in res.ids)
        /\ WritesCurrentValues)
    => res.entries = <<>>

WritesLinkedTargets ==
    /\ res.op = "write"
    /\ res.request.given
    /\ res.request.vals.m2m.given
    /\ \E o \in res.before.owners : o.id \in res.ids
    /\ SeqToSet(res.request.vals.m2m.list)
          = {r[2] : r \in {x \in res.before.rel : x[1] \in res.ids}}

\* C17: a write that gives the Many2many field the set of target ids it
\* already holds, in whatever order, adds no audit entry for the field, and
\* the ids read back are, as a set, those written.
C17_SameSetOtherOrderIsNoChange ==
    WritesLinkedTargets
    => /\ \A i \in 1..Len(res.entries) : "tag_ids" \notin SeqToSet(res.entries[i].fields)
       /\ {r[2] : r \in {x \in db.c.rel : x[1] \in res.ids}}
             = SeqToSet(res.request.vals.m2m.list)

\* A record linked to targets 1 and 2 was written, for a user, the list
\* [2, 1], and the write succeeded.
C17_Witness ==
    /\ WritesLinkedTargets
    /\ res.request.vals.m2m.list = <<2, 1>>
    /\ res.request.user_id = 1
    /\ res.outcome = "ok"
    /\ res.steps = StepOrder(TRUE)

\* C18: a failure while producing an audit entry does not abort the create
\* or the write it describes.  A create or a write made for a user id that
\* names no user (its audit entry cannot be stored), whose own statements
\* all succeeded and which came to its audit step, succeeds, and the record
\* is stored under its id with the values of the payload.
C18_AuditFailureDoesNotAbort ==
    (res.op \in {"create", "write"} /\ res.request.given
        /\ res.request.user_id \notin StoredUsers \cup {0}
        /\ res.violated \in {"none", "fk_insert"}
        /\ ~res.request.vals.m2m.given
        /\ "audit" \in SeqToSet(res.steps))
    => /\ res.outcome = "ok"
       /\ \E o \in db.c.owners :
             /\ o.id \in res.ids
             /\ res.request.vals.hasName => o.name = res.request.vals.name

\* The values the engine documents as empty: None, '', [], {}, 0, and a
\* many-to-one mapping whose id is 0 or None.
DocumentedEmpty(value) ==
    \/ value.t = "none"
    \/ value.t = "str" /\ value.s = <<>>
    \/ value.t = "list" /\ value.l = <<>>
    \/ value.t = "int" /\ value.n = 0
    \/ value.t = "dict" /\ value.s = <<>>
    \/ value.t = "dict" /\ value.s \in {<<"id", "none">>, <<"id", "int">>} /\ value.n = 0

\* The expression is the single condition (ref, '=', False).
IsRefEqualsFalse(expression) ==
    /\ expression.kind = "list"
    /\ Len(expression.items) = 1
    /\ expression.items[1].k = "tuple"
    /\ expression.items[1].c.field = <<"ref">>
    /\ expression.items[1].c.op = "="
    /\ expression.items[1].c.value = PyBool(FALSE)

\* C19: the condition (field, '=', False) evaluates to true when the field
\* holds None, '', [], {}, 0, or a many-to-one value whose id is 0 or None.
C19_EqualsFalseMatchesEmpty ==
    (eng.op = "evaluate" /\ ~MustBeRefused(eng.user_context)
        /\ IsRefEqualsFalse(eng.expression) /\ DocumentedEmpty(eng.context.fields.ref))
    => eng.result = Value(TRUE)

C19_Witness ==
    /\ eng.op = "evaluate"
    /\ ~MustBeRefused(eng.user_context)
    /\ IsRefEqualsFalse(eng.expression)
    /\ eng.context.fields.ref.t = "dict"
    /\ eng.context.fields.ref.s = <<"id", "none">>
    /\ eng.result = Value(TRUE)

\* The comparison of this condition raises in this evaluation.
ConditionRaises(c) ==
    CompareRaises(c.op, _get_field_value(c.field, eng.context, eng.user_context), c.value)

\* A group's result when a raising condition counts as false and every other
\* condition is compared as usual.
GroupWithErrorsFalse(group) ==
    \A i \in 1..Len(group) :
        /\ ~ConditionRaises(group[i])
        /\ CompareByOperator(group[i].op,
                             _get_field_value(group[i].field, eng.context, eng.user_context),
                             group[i].value)

\* An accepted evaluation of a well-formed expression in which the
\* comparison of some condition raises.
EvaluatedWithError ==
    /\ eng.op = "evaluate"
    /\ ~MustBeRefused(eng.user_context)
    /\ parse_expression(eng.expression).ok
    /\ \E c \in ConditionsOf(eng.expression) : ConditionRaises(c)

\* C20: an error raised while one condition is compared makes that condition
\* false: the evaluation still returns a boolean, and it is the one obtained
\* from the remaining conditions and groups with that condition false.
C20_ConditionErrorIsFalse ==
    EvaluatedWithError
    => LET ast == parse_expression(eng.expression)
           results == [i \in 1..Len(ast.groups) |-> GroupWithErrorsFalse(ast.groups[i])]
       IN  eng.result = Value(ApplyOperators(results[1], ast.operators, Tail(results)))

C20_Witness ==
    /\ EvaluatedWithError
    /\ Len(parse_expression(eng.expression).groups) = 2
    /\ ConditionRaises(parse_expression(eng.expression).groups[1][1])
    /\ eng.result = Value(TRUE)

\* A 3-tuple (field, operator, value) with a str field and a supported
\* comparison operator.
IsConditionTuple(c) ==
    c.arity = 3 /\ c.fieldIsStr
    /\ c.op \in {"=", "!=", "<", ">", "<=", ">=", "in", "not in", "like", "ilike"}

\* The expression holds a token that is neither a condition tuple (alone or
\* inside a group) nor '&' / '|'.
HasIllFormedToken(expression) ==
    \E i \in 1..Len(expression.items) :
        LET item == expression.items[i]
        IN  CASE item.k = "tuple" -> ~IsConditionTuple(item.c)
              [] item.k = "list" -> \E j \in 1..Len(item.g) : ~IsConditionTuple(item.g[j])
              [] item.k = "str" -> item.v \notin {"&", "|"}
              [] OTHER -> TRUE

\* C21: parse_expression answers an expression text that cannot be read, or
\* that holds a token which is neither a well-formed 3-tuple nor '&' / '|',
\* with DomainParseError, and no other exception leaves it on any text.
C21_IllFormedTokenIsParseError ==
    eng.op = "parse_expression"
    => /\ eng.result.outcome \in {"value", "DomainParseError"}
       /\ (eng.expression.kind = "invalid" \/ HasIllFormedToken(eng.expression))
            => eng.result = Raised("DomainParseError")

C21_Witness ==
    /\ eng.op = "parse_expression"
    /\ \E i \in 1..Len(eng.expression.items) :
          eng.expression.items[i].k = "str" /\ eng.expression.items[i].v = "x"
    /\ eng.result = Raised("DomainParseError")

\* The expression is a flat list of condition tuples.
IsFlatList(expression) ==
    /\ expression.kind = "list"
    /\ \A i \in 1..Len(expression.items) :
          expression.items[i].k = "tuple" /\ IsConditionTuple(expression.items[i].c)

\* C22: a flat list of conditions evaluates to true exactly when every one
\* of its conditions holds (implicit AND).
C22_FlatListIsConjunction ==
    (eng.op = "evaluate" /\ ~MustBeRefused(eng.user_context) /\ IsFlatList(eng.expression))
    => eng.result = Value(GroupWithErrorsFalse([i \in 1..Len(eng.expression.items) |->
                                                   eng.expression.items[i].c]))

\* [('status','=','draft'), ('amount','>',100)] on a draft record of amount 50
\* is false.
C22_Witness ==
    /\ eng.op = "evaluate"
    /\ ~MustBeRefused(eng.user_context)
    /\ IsFlatList(eng.expression)
    /\ Len(eng.expression.items) = 2
    /\ eng.expression.items[1].c.field = <<"status">>
    /\ eng.expression.items[2].c.field = <<"amount">>
    /\ eng.context.fields.status = PyStr(<<"draft">>)
    /\ eng.context.fields.amount = PyInt(50)
    /\ eng.result = Value(FALSE)

\* An accepted evaluation of three groups joined by '|' then '&'.
EvaluatedOrThenAnd ==
    /\ eng.op = "evaluate"
    /\ ~MustBeRefused(eng.user_context)
    /\ parse_expression(eng.expression).ok
    /\ Len(parse_expression(eng.expression).groups) = 3
    /\ parse_expression(eng.expression).operators = <<"|", "&">>

\* C26: group results are combined strictly left to right, '&' taking no
\* precedence over '|': g1 | g2 & g3 is (g1 | g2) & g3.
C26_GroupsCombineLeftToRight ==
    EvaluatedOrThenAnd
    => LET groups == parse_expression(eng.expression).groups
       IN  eng.result = Value((GroupWithErrorsFalse(groups[1]) \/ GroupWithErrorsFalse(groups[2]))
                              /\ GroupWithErrorsFalse(groups[3]))

\* g1 holds and g3 does not: the result is false, where precedence of '&'
\* would give true.
C26_Witness ==
    /\ EvaluatedOrThenAnd
    /\ GroupWithErrorsFalse(parse_expression(eng.expression).groups[1])
    /\ ~GroupWithErrorsFalse(parse_expression(eng.expression).groups[3])
    /\ eng.result = Value(FALSE)

\* C30: whatever Many2many replace, add and remove operations were made,
\* the junction table holds at most one row for an (owner id, target id)
\* pair.
C30_OneJunctionRowPerPair == db.c.twice = {}

\* A write on an owner tried to insert a junction row for a pair that has
\* one (a list naming a target twice): the primary key refused it.
C30_Witness ==
    /\ res.op = "write"
    /\ res.model = "owner"
    /\ res.violated = "unique"
    /\ db.c.twice = {}

(***************************************************************************)
(* Trips (backend/models/fleet/trip.py) behind the model API               *)
(* (backend/api/v1/endpoints/model_api.py)                                 *)
(*                                                                         *)
(* fleet.trips, fleet.vehicle and fleet.driver are the three tables;       *)
(* fleet.req is the request served last, with the user who sent it (one   *)
(* user of every role name) and how it ended: "not_found", "denied",      *)
(* "bad_method", "rolled_back" (the method raised) or "committed".        *)
(***************************************************************************)
\* A method returns the tables it leaves and whether it raised.
\* _validate_cargo_capacity and _validate_driver_license run first; a
\* vehicle that is not 'available' ends the method with a notification and
\* no write.
action_dispatch(f, t) ==
    LET self == f.trips[t]
        vehicle_id == f.vehicle[self.vehicle_id]
        driver_id == f.driver[self.driver_id]
    IN  IF self.cargo_weight > vehicle_id.max_capacity
        THEN [raised |-> TRUE, f |-> f]
        ELSE IF driver_id.license_expired \/ driver_id.status = "suspended"
        THEN [raised |-> TRUE, f |-> f]
        ELSE IF vehicle_id.status # "available"
        THEN [raised |-> FALSE, f |-> f]
        ELSE [raised |-> FALSE,
              f |-> [f EXCEPT !.trips[t].status = "dispatched",
                              !.vehicle[self.vehicle_id].status = "in_use",
                              !.driver[self.driver_id].status = "on_duty"]]

\* self.write({'status': 'in_progress', ...}) and nothing else.
action_start(f, t) ==
    [raised |-> FALSE, f |-> [f EXCEPT !.trips[t].status = "in_progress"]]

action_complete(f, t) ==
    LET self == f.trips[t]
    IN  [raised |-> FALSE,
         f |-> [f EXCEPT !.trips[t].status = "completed",
                         !.vehicle[self.vehicle_id].status = "available",
                         !.driver[self.driver_id].status = "off_duty"]]

action_do_cancel(f, t) ==
    LET self == f.trips[t]
        freed == IF self.status \in {"dispatched", "in_progress"}
                 THEN [f EXCEPT !.vehicle[self.vehicle_id].status = "available",
                                !.driver[self.driver_id].status = "off_duty"]
                 ELSE f
    IN  [raised |-> FALSE, f |-> [freed EXCEPT !.trips[t].status = "cancelled"]]

\* POST /{model_name}/{id}/call/{method_name} on fleet.trip.  getattr on the
\* Recordset finds unlink on the Recordset itself and every other name on
\* the record; action_cancel only returns a dialog.
call_model_method ==
    \E user \in {u \in Users : u.hasRole /\ u.id = 1}, id \in 1..MaxTripId,
       method_name \in {"action_dispatch", "action_start", "action_complete",
                        "action_cancel", "action_do_cancel", "unlink",
                        "no_such_method"} :
        LET req == [user |-> user, endpoint |-> "call", method |-> method_name,
                    outcome |-> ""]
            result ==
                CASE method_name = "action_dispatch" -> action_dispatch(fleet, id)
                  [] method_name = "action_start" -> action_start(fleet, id)
                  [] method_name = "action_complete" -> action_complete(fleet, id)
                  [] method_name = "action_do_cancel" -> action_do_cancel(fleet, id)
                  [] method_name = "unlink" ->
                       [raised |-> FALSE, f |-> [fleet EXCEPT !.trips[id].exists = FALSE]]
                  [] OTHER -> [raised |-> FALSE, f |-> fleet]
        IN  /\ fleet' =
                 IF ~fleet.trips[id].exists
                 THEN [fleet EXCEPT !.req = [req EXCEPT !.outcome = "not_found"]]
                 ELSE IF ~can_access_record(user, "fleet.trip", "read", NoContext)
                 THEN [fleet EXCEPT !.req = [req EXCEPT !.outcome = "denied"]]
                 ELSE IF method_name = "no_such_method"
                 THEN [fleet EXCEPT !.req = [req EXCEPT !.outcome = "bad_method"]]
                 ELSE IF result.raised
                 THEN [fleet EXCEPT !.req = [req EXCEPT !.outcome = "rolled_back"]]
                 ELSE [result.f EXCEPT !.req = [req EXCEPT !.outcome = "committed"]]
            /\ UNCHANGED <<pol, eng, db, res, reg, ser>>

\* PUT /{model_name}/{id} on fleet.trip: validate_model_permission on the
\* token's role, then can_access_record, then record.write(data), where
\* data sets cargo_weight.
update_record ==
    \E user \in {u \in Users : u.hasRole /\ u.id = 1}, id \in 1..MaxTripId,
       cargo_weight \in {500, 1500} :
        LET req == [user |-> user, endpoint |-> "update", method |-> "",
                    outcome |-> ""]
            allowed ==
                /\ user.role = "admin" \/ RolePermsLookup("fleet.trip", user.role, "write")
                /\ can_access_record(user, "fleet.trip", "write", NoContext)
        IN  /\ fleet' =
                 IF ~fleet.trips[id].exists
                 THEN [fleet EXCEPT !.req = [req EXCEPT !.outcome = "not_found"]]
                 ELSE IF ~allowed
                 THEN [fleet EXCEPT !.req = [req EXCEPT !.outcome = "denied"]]
                 ELSE [fleet EXCEPT !.trips[id].cargo_weight = cargo_weight,
                                    !.req = [req EXCEPT !.outcome = "committed"]]
            /\ UNCHANGED <<pol, eng, db, res, reg, ser>>

\* DELETE /{model_name}/{id} on fleet.trip: both permission checks for
\* 'delete', then record.unlink().
delete_record ==
    \E user \in {u \in Users : u.hasRole /\ u.id = 1}, id \in 1..MaxTripId :
        LET req == [user |-> user, endpoint |-> "delete", method |-> "",
                    outcome |-> ""]
            allowed ==
                /\ user.role = "admin" \/ RolePermsLookup("fleet.trip", user.role, "delete")
                /\ can_access_record(user, "fleet.trip", "delete", NoContext)
        IN  /\ fleet' =
                 IF ~fleet.trips[id].exists
                 THEN [fleet EXCEPT !.req = [req EXCEPT !.outcome = "not_found"]]
                 ELSE IF ~allowed
                 THEN [fleet EXCEPT !.req = [req EXCEPT !.outcome = "denied"]]
                 ELSE [fleet EXCEPT !.trips[id].exists = FALSE,
                                    !.req = [req EXCEPT !.outcome = "committed"]]
            /\ UNCHANGED <<pol, eng, db, res, reg, ser>>

SpecFleet == Init /\ [][call_model_method \/ update_record \/ delete_record]_vars

(***************************************************************************)
(* Claims on trips and the model API                                       *)
(***************************************************************************)
\* C27: a request of a user whose role lacks write permission on fleet.trip
\* changes no trip, and a request of a user whose role lacks delete
\* permission deletes none, whatever endpoint the request came through.
C27_NoChangeWithoutPermission ==
    [][LET user == fleet'.req.user
       IN  /\ ~can_access_record(user, "fleet.trip", "write", NoContext)
              => \A t \in 1..MaxTripId :
                    fleet'.trips[t].exists => fleet'.trips[t] = fleet.trips[t]
           /\ ~can_access_record(user, "fleet.trip", "delete", NoContext)
              => \A t \in 1..MaxTripId :
                    fleet'.trips[t].exists = fleet.trips[t].exists]_vars

\* C28: no vehicle is referenced by two trips in status dispatched or
\* in_progress at once.
C28_OneActiveTripPerVehicle ==
    \A t1, t2 \in 1..MaxTripId :
        /\ fleet.trips[t1].exists /\ fleet.trips[t2].exists
        /\ fleet.trips[t1].status \in {"dispatched", "in_progress"}
        /\ fleet.trips[t2].status \in {"dispatched", "in_progress"}
        /\ fleet.trips[t1].vehicle_id = fleet.trips[t2].vehicle_id
        => t1 = t2

\* C29: a method call changes a trip's status only from draft to dispatched,
\* from dispatched to in_progress, from in_progress to completed, or from
\* draft, dispatched or in_progress to cancelled.
C29_StatusFollowsLifecycle ==
    [][\A t \in 1..MaxTripId :
          fleet'.trips[t].status # fleet.trips[t].status
          => <<fleet.trips[t].status, fleet'.trips[t].status>>
               \in {<<"draft", "dispatched">>, <<"dispatched", "in_progress">>,
                    <<"in_progress", "completed">>, <<"draft", "cancelled">>,
                    <<"dispatched", "cancelled">>, <<"in_progress", "cancelled">>}]_vars

(***************************************************************************)
(* Model registry (backend/core/registry.py) filled by class definition    *)
(* (BaseModel.__init_subclass__)                                           *)
(***************************************************************************)
\* The class statement `class name(parent): ...` whose body sets
\* __abstract__ ("True") or not ("unset"), __tablename__ to None or a name of
\* its own ("table") or not at all, and _model_name_ to a string or not at
\* all.  An attribute the body does not set is the parent's, except
\* __abstract__, which is read from the class's own __dict__.  A class with
\* no _model_name_ anywhere registers as its lower-cased class name.
init_subclass(r, name, parent, abstract, tablename, model_name) ==
    LET base == r.classes[parent]
        cls == [abstract   |-> abstract = "True",
                tablename  |-> CASE tablename = "unset" -> base.tablename
                                 [] tablename = "table" -> name
                                 [] OTHER -> "None",
                model_name |-> IF model_name = "unset" THEN base.model_name
                               ELSE model_name]
        lower == [Trip |-> "trip", Vehicle |-> "vehicle", SpecialTrip |-> "specialtrip"]
        registered == IF cls.model_name = "" THEN lower[name] ELSE cls.model_name
        classes == [c \in DOMAIN r.classes \cup {name} |->
                      IF c = name THEN cls ELSE r.classes[c]]
    IN  IF cls.abstract \/ cls.tablename = "None"
        THEN [r EXCEPT !.classes = classes]
        ELSE [classes |-> classes,
              models  |-> [n \in DOMAIN r.models \cup {registered} |->
                             IF n = registered THEN name ELSE r.models[n]],
              calls   |-> r.calls \cup {<<registered, name>>}]

\* A module is imported and one of its class statements runs.
DefineClass ==
    \E name \in {"Trip", "Vehicle", "SpecialTrip"} \ DOMAIN reg.classes,
       parent \in DOMAIN reg.classes,
       abstract \in {"unset", "True"},
       tablename \in {"unset", "None", "table"},
       model_name \in {"unset", "fleet.trip", "trip"} :
        /\ reg' = init_subclass(reg, name, parent, abstract, tablename, model_name)
        /\ UNCHANGED <<pol, eng, db, res, fleet, ser>>

SpecRegistry == Init /\ [][DefineClass]_vars

(***************************************************************************)
(* Claims on the registry                                                  *)
(***************************************************************************)
\* C25: no abstract class registered, no two classes registered under one
\* name, and looking a name up gives the class that registered under it.
C25_OneClassPerName ==
    /\ \A call \in reg.calls :
          /\ ~reg.classes[call[2]].abstract
          /\ reg.models[call[1]] = call[2]
    /\ \A c1, c2 \in reg.calls : c1[1] = c2[1] => c1[2] = c2[2]

(***************************************************************************)
(* BaseModel.to_dict (backend/core/base_model.py)                          *)
(*                                                                         *)
(* The serialized model has the stored columns license_expiry and          *)
(* parent_id, the computed field license_expired (store=False, compute     *)
(* declared with @api.depends('license_expiry'), as on fleet.driver) and   *)
(* the one-to-many child_ids, inverse of parent_id.  A record's parent may *)
(* be any record, itself or one of its own children included.              *)
(***************************************************************************)
RECURSIVE to_dict(_, _, _)

\* The one-to-many branch as it would read with the guard max_depth >= 0.
ToDictExpandsAtDepthZero(s, id, max_depth) ==
    LET self == s.records[id]
        child_ids == {c \in DOMAIN s.records : s.records[c].parent_id = id}
    IN  [id              |-> id,
         license_expiry  |-> self.license_expiry,
         license_expired |-> self.license_expiry # 0 /\ self.license_expiry < s.today,
         parent_id       |-> self.parent_id,
         child_ids       |-> [c \in (IF max_depth >= 0 THEN child_ids ELSE {}) |->
                                to_dict(s, c, max_depth - 1)]]

\* license_expired is not stored, so its compute method runs on every call:
\* expiry_date < datetime.now().date(), False when license_expiry is empty.
\* child_ids is expanded only while max_depth > 0, each child with
\* max_depth - 1; the list is keyed by the child's id here.
to_dict(s, id, max_depth) ==
    LET self == s.records[id]
        child_ids == {c \in DOMAIN s.records : s.records[c].parent_id = id}
    IN  [id              |-> id,
         license_expiry  |-> self.license_expiry,
         license_expired |-> self.license_expiry # 0 /\ self.license_expiry < s.today,
         parent_id       |-> self.parent_id,
         child_ids       |-> [c \in (IF max_depth > 0 THEN child_ids ELSE {}) |->
                                to_dict(s, c, max_depth - 1)]]

\* A caller serializes a record.  prev keeps the result before this one
\* when it was for the same record and depth.
ToDict ==
    \E id \in 1..MaxRecordId, max_depth \in 0..MaxDepth :
        /\ ser' = [ser EXCEPT
                     !.prev = IF ser.last.id = id /\ ser.last.max_depth = max_depth
                              THEN ser.last
                              ELSE [id |-> 0, max_depth |-> 0, out |-> << >>],
                     !.last = [id |-> id, max_depth |-> max_depth,
                               out |-> to_dict(ser, id, max_depth)]]
        /\ UNCHANGED <<pol, eng, db, res, fleet, reg>>

\* record.write({'license_expiry': ..., 'parent_id': ...}); results taken
\* before the write are set aside.
WriteSerialized ==
    \E id \in 1..MaxRecordId, license_expiry \in {0, 2}, parent_id \in 0..MaxRecordId :
        /\ ser' = [ser EXCEPT
                     !.records[id] = [license_expiry |-> license_expiry,
                                      parent_id |-> parent_id],
                     !.last = [id |-> 0, max_depth |-> 0, out |-> << >>],
                     !.prev = [id |-> 0, max_depth |-> 0, out |-> << >>]]
        /\ UNCHANGED <<pol, eng, db, res, fleet, reg>>

\* Midnight passes: datetime.now().date() is one day later.
NextDay ==
    /\ ser.today < MaxDay
    /\ ser' = [ser EXCEPT !.today = @ + 1]
    /\ UNCHANGED <<pol, eng, db, res, fleet, reg>>

SpecSerialize == Init /\ [][ToDict \/ WriteSerialized \/ NextDay]_vars

(***************************************************************************)
(* Claims on serialization                                                 *)
(***************************************************************************)
RECURSIVE Nesting(_)

\* How many levels of related records a to_dict() result holds.
Nesting(out) ==
    IF DOMAIN out.child_ids = {} THEN 0
    ELSE LET below == {Nesting(out.child_ids[c]) : c \in DOMAIN out.child_ids}
         IN  1 + CHOOSE n \in below : \A m \in below : m <= n

\* C23: two consecutive to_dict() calls on a record with no write between
\* them return the same output (the model has no computed field without a
\* declared dependency).
C23_ConsecutiveToDictEqual ==
    ser.prev.id # 0 => ser.prev.out = ser.last.out

\* C24: to_dict returns on every graph of records, a cyclic one included,
\* with at most max_depth levels of one-to-many records below the record;
\* with max_depth 0 it holds none.
C24_ExpansionBoundedByMaxDepth ==
    ser.last.id # 0 => Nesting(ser.last.out) <= ser.last.max_depth

\* Two records are each other's parent and one was serialized with
\* max_depth 2: the result holds the child and, below it, the record again.
C24_Witness ==
    /\ ser.records[1].parent_id = 2
    /\ ser.records[2].parent_id = 1
    /\ ser.last.id = 1
    /\ ser.last.max_depth = 2
    /\ Nesting(ser.last.out) = 2
    /\ ser.last.out.child_ids[2].child_ids[1].child_ids = << >>

=============================================================================
